---------------------------- MODULE Spec2Model ----------------------------
(***************************************************************************)
(* A model of the product RAG system: the two-stage retrieval engine       *)
(* (vector_pipeline/retrieval.py, vector_pipeline/config.py) and the       *)
(* session-scoped conversational state machine (langgraph_app/graph.py,    *)
(* langgraph_app/nodes.py), the turn entry points (vector_pipeline/        *)
(* api_wrapper.py, api_wrapper_lg.py, rag_pipeline.py, backend/main.py),   *)
(* the lazily built singletons and the offline ingestion pipeline          *)
(* (vector_pipeline/ingestion.py).                                         *)
(***************************************************************************)
EXTENDS Integers, Sequences, FiniteSets, TLC

(***************************************************************************)
(* Bounds of the model.                                                    *)
(***************************************************************************)
\* largest number of chunks the Chunk Store holds in the retrieval model
MaxChunks == 3
\* largest k a caller of retrieve_documents passes (the smallest is -1)
MaxK == 3
\* cross-encoder scores are drawn from 0..MaxScore
MaxScore == 1

\* largest number of chunks the Chunk Store holds in the session model
MaxSessionChunks == 1
\* largest number of stateful turns started in one run of the session model
MaxTurns == 3

\* the query texts, which are also the user message texts
Queries == {"A", "B"}
\* the session ids callers pass, and the threads that serve their calls
Sessions == {"S", "T"}
Threads == {"t1", "t2"}
\* k as the caller passes it: retrieve_documents does not restrict it
KValues == (0 - 1)..MaxK
\* initial_k as the caller passes it: None (not given) or an integer
NoInitialK == [given |-> FALSE, value |-> 0]
InitialKValues == {NoInitialK} \cup {[given |-> TRUE, value |-> v] : v \in 0..MaxK}
Scores == 0..MaxScore

VARIABLES
  store,              \* the Chunk Store: its chunks, in insertion order
  reranker_instance,  \* config._reranker_instance: FALSE is None
  rpc,                \* position of the retrieve_documents call
  query,              \* retrieve_documents' arguments
  k,
  use_reranker,
  initial_k,
  candidate_docs,     \* its locals
  scores,
  result,             \* what it returned
  status,             \* "running", "ok" (returned) or "error" (raised)
  requested,          \* the n_results asked of the store in this call, in order
  score_calls,        \* the batches handed to reranker.score in this call
  events,             \* what this call did, in order
  memory,             \* graph._memory: the latest checkpoint of each thread_id
  tpc,                \* position of each thread's run_chat_session call
  tsid,               \* its session_id
  tmsg,               \* its user_message
  tstate,             \* the graph state (channel values) of its invocation
  tret,               \* what the call returned
  tquery,             \* the query its agent_node retrieved with
  tbefore,            \* history: the messages its invocation loaded
  tnum,               \* history: the count of completed turns at its return
  overlapped,         \* history: its turn ran while another ran on the session
  sent,               \* history: user texts of the session's completed turns
  clean,              \* history: the session saw no overlap and no failure
  turns,              \* history: turns started
  rag_service_ready,  \* main.RAG_SERVICE_READY
  langgraph_available,\* api_wrapper_lg._LANGGRAPH_AVAILABLE
  aw_vectorstore,     \* api_wrapper._vectorstore is set
  lg_vectorstore,     \* langgraph_app.config._vectorstore is set
  app,                \* graph._app is set
  constructed,        \* history: objects of each resource built so far
  ncalls,             \* history: entry-point calls made
  epc,                \* position of the entry-point call
  ecall,              \* the entry point called and its arguments
  eout,               \* what the call did and how it ended
  ginstance,          \* the module-level variable of each singleton: 0 is None
  gbuilt,             \* history: objects built of each singleton's class
  gpc,                \* position of each thread's getter call
  gwant,              \* the singleton it asks for
  glocal,             \* the object it built
  ggot,               \* the instance it returned
  ngets,              \* history: gets started
  source,             \* the pickle at DATA_PATH
  chroma_dir,         \* the directory CHROMA_DIR and the store in it
  archive,            \* CHROMA_ARCHIVE exists
  ipc,                \* position of the ingestion call
  iop,                \* the function called
  ipath,              \* the way build_or_load_vectorstore went
  ichunks,            \* the number of chunks of this run
  iwritten,           \* the number of them written so far
  istatus,            \* "running", "ok" or the exception raised
  ihandle,            \* the chunks of the vectorstore it returned
  ibefore,            \* history: CHROMA_DIR when the call began
  nruns,              \* history: ingestion calls made
  frame,              \* the dataframe pickled at DATA_PATH
  dpc,                \* position of the run from dataframe to chunks
  df,                 \* what load_dataframe returned
  raw_docs,           \* what dataframe_to_documents returned
  chunked_docs        \* what chunk_documents returned

retrievalVars == <<store, reranker_instance, rpc, query, k, use_reranker,
                   initial_k, candidate_docs, scores, result, status,
                   requested, score_calls, events>>

sessionVars == <<memory, tpc, tsid, tmsg, tstate, tret, tquery, tbefore, tnum,
                 overlapped, sent, clean, turns>>

entryVars == <<rag_service_ready, langgraph_available, aw_vectorstore,
               lg_vectorstore, app, constructed, ncalls, epc, ecall, eout>>

\* the state of the parts that the retrieval and session models leave alone
getterVars == <<ginstance, gbuilt, gpc, gwant, glocal, ggot, ngets>>

ingestVars == <<source, chroma_dir, archive, ipc, iop, ipath, ichunks,
                iwritten, istatus, ihandle, ibefore, nruns>>

docVars == <<frame, dpc, df, raw_docs, chunked_docs>>

otherVars == <<entryVars, getterVars, ingestVars, docVars>>

vars == <<retrievalVars, sessionVars, otherVars>>

(***************************************************************************)
(* Helpers.                                                                *)
(***************************************************************************)
Max(a, b) == IF a >= b THEN a ELSE b
Min(a, b) == IF a <= b THEN a ELSE b
Abs(a) == IF a >= 0 THEN a ELSE 0 - a

\* Python's s[:n]: the first n elements, or all but the last -n when n < 0
PySlice(s, n) ==
  IF n >= 0 THEN SubSeq(s, 1, Min(n, Len(s)))
            ELSE SubSeq(s, 1, Max(Len(s) + n, 0))

\* list(zip(a, b)): pairs up to the shorter length
Zip(a, b) == [i \in 1..Min(Len(a), Len(b)) |-> <<a[i], b[i]>>]

\* a variant that inserts pair p before the pairs of equal key: equal keys
\* come out in reverse input order
RECURSIVE InsertDescUnstable(_, _)
InsertDescUnstable(p, s) ==
  IF s = <<>> THEN <<p>>
  ELSE IF Head(s)[2] > p[2] THEN <<Head(s)>> \o InsertDescUnstable(p, Tail(s))
  ELSE <<p>> \o s

\* insert pair p into a list sorted by descending second component, after
\* every pair whose key is not smaller: equal keys keep their input order
RECURSIVE InsertDesc(_, _)
InsertDesc(p, s) ==
  IF s = <<>> THEN <<p>>
  ELSE IF Head(s)[2] >= p[2] THEN <<Head(s)>> \o InsertDesc(p, Tail(s))
  ELSE <<p>> \o s

\* pairs.sort(key=lambda t: t[1], reverse=True): a stable descending sort
RECURSIVE SortInto(_, _)
SortInto(s, acc) ==
  IF s = <<>> THEN acc ELSE SortInto(Tail(s), InsertDesc(Head(s), acc))

SortDesc(pairs) == SortInto(pairs, <<>>)

Firsts(pairs) == [i \in 1..Len(pairs) |-> pairs[i][1]]

(***************************************************************************)
(* The Chunk Store (Chroma) and the Embedding Provider.  A chunk is its    *)
(* position in the store; embeddings lie on a line, and similarity is the  *)
(* negated distance between the query's and the chunk's embedding.         *)
(***************************************************************************)
EmbedQuery(q) == CASE q = "A" -> 2 [] q = "B" -> 4 [] OTHER -> 0
EmbedChunk(c) == c
Similarity(q, c) == 0 - Abs(EmbedQuery(q) - EmbedChunk(c))

\* the store's chunks by descending similarity to q (ties: insertion order)
Ranked(q, st) == Firsts(SortDesc([i \in 1..Len(st) |-> <<st[i], Similarity(q, st[i])>>]))

\* vs.as_retriever(search_kwargs={"k": n}).invoke(q): the n nearest chunks,
\* all of them when the store holds fewer.  Chroma rejects a number of
\* results that is zero or negative by raising.
StoreQuery(q, st, n) ==
  IF n <= 0
  THEN {[ok |-> FALSE, docs |-> <<>>]}
  ELSE {[ok |-> TRUE, docs |-> SubSeq(Ranked(q, st), 1, Min(n, Len(st)))]}

(***************************************************************************)
(* retrieve_documents, step by step.                                       *)
(***************************************************************************)
\* a variant that over-fetches by the factor alone, as the docstring words it
InitialKFactorOnly(kk, ik) == IF ik.given THEN ik.value ELSE kk * 4

\* the number of stage-1 candidates of the two-stage path
InitialK(kk, ik) == IF ik.given THEN ik.value ELSE Max(kk * 4, kk + 8)

\* a variant that over-fetches whether or not the reranker is enabled
Stage1KAlwaysInitial(kk, rr, ik) == InitialK(kk, ik)

\* the number of candidates stage 1 asks the store for
Stage1K(kk, rr, ik) == IF ~rr THEN kk ELSE InitialK(kk, ik)

\* a variant that scores the best stage-1 candidate alone
ScoreBatchHeadOnly(cands) == SubSeq(cands, 1, 1)

\* the batch handed to reranker.score: every candidate's content
ScoreBatch(cands) == cands

\* CrossEncoderReranker.score: one score per document of the batch
ScoreOutputs(batch) == [1..Len(batch) -> Scores]

\* a variant that truncates without sorting
RerankUnsorted(cands, sc, kk) == Firsts(PySlice(Zip(cands, sc), kk))

\* a variant that sorts and does not truncate
RerankNoTruncate(cands, sc, kk) == Firsts(SortDesc(Zip(cands, sc)))

\* pairs = zip(docs, scores); sort descending; first k documents
Rerank(cands, sc, kk) == Firsts(PySlice(SortDesc(Zip(cands, sc)), kk))

\* a variant that falls back to the vector-only ranking
ScorerFallback(cands, kk) == [status |-> "ok", result |-> PySlice(cands, kk)]

\* an exception raised by the scorer leaves retrieve_documents as it is
ScorerFailure(cands, kk) == [status |-> "error", result |-> <<>>]

RetrievalIdle ==
  /\ reranker_instance = FALSE
  /\ rpc = "idle"
  /\ query = "A"
  /\ k = 1
  /\ use_reranker = FALSE
  /\ initial_k = NoInitialK
  /\ candidate_docs = <<>>
  /\ scores = <<>>
  /\ result = <<>>
  /\ status = "ok"
  /\ requested = <<>>
  /\ score_calls = <<>>
  /\ events = <<>>

\* a caller enters retrieve_documents(query, vs, k, use_reranker, initial_k)
Call ==
  /\ UNCHANGED <<sessionVars, otherVars>>
  /\ rpc = "idle"
  /\ \E q \in Queries, kk \in KValues, rr \in BOOLEAN, ik \in InitialKValues :
       /\ query' = q
       /\ k' = kk
       /\ use_reranker' = rr
       /\ initial_k' = ik
  /\ rpc' = "stage1"
  /\ candidate_docs' = <<>>
  /\ scores' = <<>>
  /\ result' = <<>>
  /\ status' = "running"
  /\ requested' = <<>>
  /\ score_calls' = <<>>
  /\ events' = <<>>
  /\ UNCHANGED <<store, reranker_instance>>

\* use_reranker False: one similarity search with k, returned as it is
SimpleSearch ==
  /\ UNCHANGED <<sessionVars, otherVars>>
  /\ rpc = "stage1"
  /\ ~use_reranker
  /\ requested' = Append(requested, Stage1K(k, use_reranker, initial_k))
  /\ events' = Append(events, "search")
  /\ \E r \in StoreQuery(query, store, Stage1K(k, use_reranker, initial_k)) :
       /\ result' = r.docs
       /\ status' = IF r.ok THEN "ok" ELSE "error"
  /\ rpc' = "done"
  /\ UNCHANGED <<store, reranker_instance, query, k, use_reranker, initial_k,
                 candidate_docs, scores, score_calls>>

\* use_reranker True: stage 1 fetches initial_k candidates; none: return []
Stage1 ==
  /\ UNCHANGED <<sessionVars, otherVars>>
  /\ rpc = "stage1"
  /\ use_reranker
  /\ requested' = Append(requested, Stage1K(k, use_reranker, initial_k))
  /\ events' = Append(events, "search")
  /\ \E r \in StoreQuery(query, store, Stage1K(k, use_reranker, initial_k)) :
       /\ candidate_docs' = r.docs
       /\ IF ~r.ok THEN /\ status' = "error"
                        /\ rpc' = "done"
          ELSE IF r.docs = <<>> THEN /\ status' = "ok"
                                     /\ rpc' = "done"
          ELSE /\ status' = status
               /\ rpc' = "rerank"
  /\ UNCHANGED <<store, reranker_instance, query, k, use_reranker, initial_k,
                 scores, result, score_calls>>

\* get_bge_reranker(): the cached instance, or a construction that may raise
GetReranker ==
  /\ UNCHANGED <<sessionVars, otherVars>>
  /\ rpc = "rerank"
  /\ \/ /\ reranker_instance
        /\ events' = Append(events, "get_reranker")
        /\ rpc' = "score"
        /\ UNCHANGED <<reranker_instance, status, result>>
     \/ /\ ~reranker_instance
        /\ events' = Append(events, "construct")
        /\ reranker_instance' = TRUE
        /\ rpc' = "score"
        /\ UNCHANGED <<status, result>>
     \/ /\ ~reranker_instance
        /\ events' = Append(events, "construct_failed")
        /\ status' = ScorerFailure(candidate_docs, k).status
        /\ result' = ScorerFailure(candidate_docs, k).result
        /\ rpc' = "done"
        /\ UNCHANGED reranker_instance
  /\ UNCHANGED <<store, query, k, use_reranker, initial_k, candidate_docs,
                 scores, requested, score_calls>>

\* reranker.score(query, [d.page_content for d in candidate_docs])
Score ==
  /\ UNCHANGED <<sessionVars, otherVars>>
  /\ rpc = "score"
  /\ score_calls' = Append(score_calls, ScoreBatch(candidate_docs))
  /\ \/ /\ \E sc \in ScoreOutputs(ScoreBatch(candidate_docs)) : scores' = sc
        /\ events' = Append(events, "score")
        /\ rpc' = "sort"
        /\ UNCHANGED <<status, result>>
     \/ /\ events' = Append(events, "score_failed")
        /\ status' = ScorerFailure(candidate_docs, k).status
        /\ result' = ScorerFailure(candidate_docs, k).result
        /\ rpc' = "done"
        /\ UNCHANGED scores
  /\ UNCHANGED <<store, reranker_instance, query, k, use_reranker, initial_k,
                 candidate_docs, requested>>

\* sort the (doc, score) pairs by score descending and return the first k
SortAndReturn ==
  /\ UNCHANGED <<sessionVars, otherVars>>
  /\ rpc = "sort"
  /\ result' = Rerank(candidate_docs, scores, k)
  /\ status' = "ok"
  /\ events' = Append(events, "sort")
  /\ rpc' = "done"
  /\ UNCHANGED <<store, reranker_instance, query, k, use_reranker, initial_k,
                 candidate_docs, scores, requested, score_calls>>

\* the caller takes the outcome; the next call may start
Finish ==
  /\ UNCHANGED <<sessionVars, otherVars>>
  /\ rpc = "done"
  /\ rpc' = "idle"
  /\ UNCHANGED <<store, reranker_instance, query, k, use_reranker, initial_k,
                 candidate_docs, scores, result, status, requested,
                 score_calls, events>>

(***************************************************************************)
(* retrieve_documents as one call: every outcome the steps above can end   *)
(* in, for a reranker singleton that is (inst) or is not yet built.        *)
(***************************************************************************)
RerankOutcomes(cands, kk, inst) ==
  (IF inst THEN {}
   ELSE {[status |-> ScorerFailure(cands, kk).status,
          result |-> ScorerFailure(cands, kk).result,
          instance |-> FALSE]})
  \cup {[status |-> ScorerFailure(cands, kk).status,
         result |-> ScorerFailure(cands, kk).result,
         instance |-> TRUE]}
  \cup {[status |-> "ok", result |-> Rerank(cands, sc, kk), instance |-> TRUE] :
          sc \in ScoreOutputs(ScoreBatch(cands))}

RetrieveDocuments(q, st, kk, rr, ik, inst) ==
  UNION {
    IF ~r.ok THEN {[status |-> "error", result |-> <<>>, instance |-> inst]}
    ELSE IF ~rr \/ r.docs = <<>>
      THEN {[status |-> "ok", result |-> r.docs, instance |-> inst]}
    ELSE RerankOutcomes(r.docs, kk, inst)
    : r \in StoreQuery(q, st, Stage1K(kk, rr, ik)) }

(***************************************************************************)
(* The conversational state machine: run_chat_session over the compiled    *)
(* graph START -> agent -> END with the in-memory checkpointer.            *)
(***************************************************************************)
\* agent_node's retrieval depth
AgentK == 4

NothingFound == "I couldn't find anything relevant in the product database."

\* the Answer Generator: llm.invoke(prompt), a function of its prompt
AnswerText(q, docs) == IF q = "A" THEN "answer to A" ELSE "answer to B"

HumanMessage(c) == [type |-> "human", content |-> c]
AIMessage(c) == [type |-> "ai", content |-> c]

\* _lc_message_to_dict
LcMessageToDict(msg) ==
  [role |-> CASE msg.type = "human" -> "user"
              [] msg.type = "ai" -> "assistant"
              [] msg.type = "system" -> "system"
              [] OTHER -> "assistant",
   content |-> msg.content]

ToDicts(msgs) == [i \in 1..Len(msgs) |-> LcMessageToDict(msgs[i])]

\* a variant of the reducer that replaces the list instead of appending
AddMessagesReplace(left, right) == right

\* the add_messages reducer of ChatState.messages, for messages without ids
AddMessages(left, right) == left \o right

\* a variant that keeps every session under one thread_id
ThreadIdShared(session_id) == "S"

\* config = {"configurable": {"thread_id": session_id}}
ThreadId(session_id) == session_id

\* a thread_id without a checkpoint loads as the empty state
EmptyState == [messages |-> <<>>, last_retrieved |-> <<>>]

\* _get_last_user_message: the last HumanMessage, scanning backwards
GetLastUserMessage(msgs) ==
  LET idx == {i \in 1..Len(msgs) : msgs[i].type = "human"}
  IN IF idx = {} THEN [found |-> FALSE, content |-> ""]
     ELSE [found |-> TRUE,
           content |-> msgs[CHOOSE i \in idx : \A j \in idx : j <= i].content]

\* the characters a snippet keeps of a document's content
SNIPPET_LENGTH == 400

\* doc.page_content of chunk d: the text of the chunk, of which the model
\* keeps the length (chunk 1 is shorter than a snippet, the others longer)
PageContent(d) == [text |-> d, len |-> 300 * d]

\* content[:n] for n >= 0: the first n characters, all when there are fewer
Prefix(content, n) == [content EXCEPT !.len = Min(n, content.len)]

\* {"metadata": doc.metadata, "snippet": doc.page_content[:400]}
RetrievedEntry(d) ==
  [metadata |-> d, snippet |-> Prefix(PageContent(d), SNIPPET_LENGTH)]

\* agent_node on state st: the failure, or the update it returns, with the
\* documents retrieved and whether llm.invoke was called
AgentNode(st, inst) ==
  LET last == GetLastUserMessage(st.messages) IN
  IF ~last.found
  THEN {[ok |-> FALSE, query |-> "", messages |-> <<>>, last_retrieved |-> <<>>,
         instance |-> inst, docs |-> <<>>, generated |-> FALSE]}
  ELSE UNION {
    IF o.status = "error"
    THEN {[ok |-> FALSE, query |-> last.content, messages |-> <<>>,
           last_retrieved |-> <<>>, instance |-> o.instance,
           docs |-> <<>>, generated |-> FALSE]}
    ELSE IF o.result = <<>>
    THEN {[ok |-> TRUE, query |-> last.content,
           messages |-> <<AIMessage(NothingFound)>>,
           last_retrieved |-> <<>>, instance |-> o.instance,
           docs |-> <<>>, generated |-> FALSE]}
    ELSE {[ok |-> FALSE, query |-> last.content, messages |-> <<>>,
           last_retrieved |-> <<>>, instance |-> o.instance,
           docs |-> o.result, generated |-> TRUE],
          [ok |-> TRUE, query |-> last.content,
           messages |-> <<AIMessage(AnswerText(last.content, o.result))>>,
           last_retrieved |-> [i \in 1..Len(o.result) |-> RetrievedEntry(o.result[i])],
           instance |-> o.instance,
           docs |-> o.result, generated |-> TRUE]}
    : o \in RetrieveDocuments(last.content, store, AgentK, TRUE, NoInitialK, inst) }

NoReturn == [answer |-> "", messages |-> <<>>, retrieved |-> <<>>]
Running == {"loaded", "agent", "computed"}

SessionIdle ==
  /\ memory = [key \in Sessions |-> EmptyState]
  /\ tpc = [t \in Threads |-> "idle"]
  /\ tsid = [t \in Threads |-> "S"]
  /\ tmsg = [t \in Threads |-> "A"]
  /\ tstate = [t \in Threads |-> EmptyState]
  /\ tret = [t \in Threads |-> NoReturn]
  /\ tquery = [t \in Threads |-> ""]
  /\ tbefore = [t \in Threads |-> <<>>]
  /\ tnum = [t \in Threads |-> 0]
  /\ overlapped = [t \in Threads |-> FALSE]
  /\ sent = [s \in Sessions |-> <<>>]
  /\ clean = [s \in Sessions |-> TRUE]
  /\ turns = 0

\* run_chat_session(m, s) is entered: app.invoke loads the checkpoint of
\* the thread_id and applies the input {"messages": [HumanMessage(m)]}
BeginTurn(t) ==
  /\ tpc[t] = "idle"
  /\ turns < MaxTurns
  /\ \E s \in Sessions, m \in Queries :
       LET others == {u \in Threads \ {t} : tpc[u] \in Running /\ tsid[u] = s}
           loaded == memory[ThreadId(s)]
       IN /\ tsid' = [tsid EXCEPT ![t] = s]
          /\ tmsg' = [tmsg EXCEPT ![t] = m]
          /\ tstate' = [tstate EXCEPT ![t] =
               [messages |-> AddMessages(loaded.messages, <<HumanMessage(m)>>),
                last_retrieved |-> loaded.last_retrieved]]
          /\ tbefore' = [tbefore EXCEPT ![t] = loaded.messages]
          /\ overlapped' = [u \in Threads |->
               IF others # {} /\ u \in others \cup {t} THEN TRUE
               ELSE IF u = t THEN FALSE ELSE overlapped[u]]
          /\ clean' = [clean EXCEPT ![s] = clean[s] /\ others = {}]
  /\ tpc' = [tpc EXCEPT ![t] = "loaded"]
  /\ turns' = turns + 1
  /\ UNCHANGED <<memory, tret, tquery, tnum, sent>>
  /\ UNCHANGED <<retrievalVars, otherVars>>

\* the checkpoint of the input step is stored under the thread_id
SaveInput(t) ==
  /\ tpc[t] = "loaded"
  /\ memory' = [memory EXCEPT ![ThreadId(tsid[t])] = tstate[t]]
  /\ tpc' = [tpc EXCEPT ![t] = "agent"]
  /\ UNCHANGED <<tsid, tmsg, tstate, tret, tquery, tbefore, tnum, overlapped,
                 sent, clean, turns>>
  /\ UNCHANGED <<retrievalVars, otherVars>>

\* the graph's one node runs on the invocation's state; its update is
\* merged into that state, or its exception ends the invocation
RunAgent(t) ==
  /\ tpc[t] = "agent"
  /\ \E o \in AgentNode(tstate[t], reranker_instance) :
       /\ reranker_instance' = o.instance
       /\ tquery' = [tquery EXCEPT ![t] = o.query]
       /\ IF o.ok
          THEN /\ tstate' = [tstate EXCEPT ![t] =
                    [messages |-> AddMessages(tstate[t].messages, o.messages),
                     last_retrieved |-> o.last_retrieved]]
               /\ tpc' = [tpc EXCEPT ![t] = "computed"]
               /\ clean' = clean
          ELSE /\ tstate' = tstate
               /\ tpc' = [tpc EXCEPT ![t] = "failed"]
               /\ clean' = [clean EXCEPT ![tsid[t]] = FALSE]
  /\ UNCHANGED <<memory, tsid, tmsg, tret, tbefore, tnum, overlapped, sent, turns>>
  /\ UNCHANGED <<store, rpc, query, k, use_reranker, initial_k, candidate_docs,
                 scores, result, status, requested, score_calls, events>>
  /\ UNCHANGED otherVars

\* the checkpoint of the agent step is stored and run_chat_session returns
\* the answer, the converted messages and last_retrieved
SaveOutput(t) ==
  /\ tpc[t] = "computed"
  /\ memory' = [memory EXCEPT ![ThreadId(tsid[t])] = tstate[t]]
  /\ tret' = [tret EXCEPT ![t] =
       LET messages == ToDicts(tstate[t].messages)
       IN [answer |-> IF messages # <<>> THEN messages[Len(messages)].content ELSE "",
           messages |-> messages,
           retrieved |-> tstate[t].last_retrieved]]
  /\ sent' = [sent EXCEPT ![tsid[t]] =
       IF clean[tsid[t]] THEN Append(@, tmsg[t]) ELSE @]
  /\ tnum' = [tnum EXCEPT ![t] = Len(sent'[tsid[t]])]
  /\ tpc' = [tpc EXCEPT ![t] = "done"]
  /\ UNCHANGED <<tsid, tmsg, tstate, tquery, tbefore, overlapped, clean, turns>>
  /\ UNCHANGED <<retrievalVars, otherVars>>

\* the caller has the result or the exception; the thread is free again
EndTurn(t) ==
  /\ tpc[t] \in {"done", "failed"}
  /\ tpc' = [tpc EXCEPT ![t] = "idle"]
  /\ tsid' = [tsid EXCEPT ![t] = "S"]
  /\ tmsg' = [tmsg EXCEPT ![t] = "A"]
  /\ tstate' = [tstate EXCEPT ![t] = EmptyState]
  /\ tret' = [tret EXCEPT ![t] = NoReturn]
  /\ tquery' = [tquery EXCEPT ![t] = ""]
  /\ tbefore' = [tbefore EXCEPT ![t] = <<>>]
  /\ tnum' = [tnum EXCEPT ![t] = 0]
  /\ overlapped' = [overlapped EXCEPT ![t] = FALSE]
  /\ UNCHANGED <<memory, sent, clean, turns>>
  /\ UNCHANGED <<retrievalVars, otherVars>>

(***************************************************************************)
(* The turn entry points, called one after the other in one process:       *)
(* run_chat (api_wrapper.py), run_chat_stateless (graph.py),               *)
(* run_chat_langgraph_stateless (api_wrapper_lg.py), chat_handler          *)
(* (backend/main.py), ask_question (rag_pipeline.py) and                   *)
(* retrieve_products (retrieval.py).                                       *)
(***************************************************************************)
\* largest number of chunks the Chunk Store holds when callers pass any k
MaxCallerChunks == 2
\* longest message history a caller passes
MaxHistory == 2
\* entry-point calls made in one run of the entry-point model
MaxCalls == 2

Roles == {"user", "assistant", "system"}
Messages == [role : Roles, content : Queries]
Histories == UNION {[1..n -> Messages] : n \in 0..MaxHistory}
\* k (top_k) as the callers of the entry points pass it
TopKValues == {0, 2}
\* ChatRequest.session_id: "" stands for None and for blank text
SessionIds == {"", "S"}

NoCall == [ep |-> "none", messages |-> <<>>, question |-> "", k |-> 0,
           use_reranker |-> FALSE, session_id |-> ""]
NoOutcome == [status |-> "none", touched |-> <<>>, queries |-> <<>>,
              docs |-> <<>>, context |-> <<>>, generated |-> FALSE,
              answer |-> "", messages |-> <<>>, retrieved |-> <<>>,
              response_status |-> ""]

\* a role the code does not know, and the role of a dict without the key
AnyRoles == Roles \cup {"tool", ""}
AnyRoleHistories ==
  UNION {[1..n -> [role : AnyRoles, content : Queries]] : n \in 0..MaxHistory}
\* answer_single_turn's history: the one user message
SingleTurn(q) == <<[role |-> "user", content |-> q]>>

\* a variant that takes a message of an unknown role for the assistant's
DictToLcMessageUnknownAsAssistant(m) ==
  LET role == IF m.role = "" THEN "user" ELSE m.role
  IN [type |-> CASE role = "user" -> "human"
                 [] role = "assistant" -> "ai"
                 [] role = "system" -> "system"
                 [] OTHER -> "ai",
      content |-> m.content]

\* _dict_to_lc_message: msg.get("role", "user"); an unknown role is
\* treated as user
DictToLcMessage(m) ==
  LET role == IF m.role = "" THEN "user" ELSE m.role
  IN [type |-> CASE role = "user" -> "human"
                 [] role = "assistant" -> "ai"
                 [] role = "system" -> "system"
                 [] OTHER -> "human",
      content |-> m.content]

ToLcMessages(msgs) == [i \in 1..Len(msgs) |-> DictToLcMessage(msgs[i])]

AssistantDict(c) == [role |-> "assistant", content |-> c]

\* convert_answer_to_html: markdown renders the answer as a paragraph
Html(answer) == "<p>" \o answer \o "</p>"

Entries(docs) == [i \in 1..Len(docs) |-> RetrievedEntry(docs[i])]

\* what a retrieve_documents call with outcome o touched
RetrievalEvents(o, inst) ==
  <<"search">> \o (IF o.instance # inst THEN <<"construct_scorer">> ELSE <<>>)

\* the objects built so far, after a call that did the things in touched
Count(c, touched) ==
  LET n(S) == Cardinality({i \in 1..Len(touched) : touched[i] \in S})
  IN [store |-> c.store + n({"build_or_load_vectorstore", "load_vectorstore"}),
      embeddings |-> c.embeddings
                       + n({"build_or_load_vectorstore", "load_vectorstore"}),
      scorer |-> c.scorer + n({"construct_scorer"}),
      generator |-> c.generator + n({"construct_llm"})]

\* get_vectorstore() of api_wrapper and of langgraph_app.config: the cached
\* handle, or build_or_load_vectorstore(), which returns a handle or raises
GetVectorstore(cached) ==
  IF cached
  THEN {[ok |-> TRUE, events |-> <<"get_vectorstore">>]}
  ELSE {[ok |-> TRUE, events |-> <<"build_or_load_vectorstore">>],
        [ok |-> FALSE, events |-> <<"build_or_load_failed">>]}

\* load_vectorstore(): a new Chroma handle over new embeddings, or raises
LoadVectorstore ==
  {[ok |-> TRUE, events |-> <<"load_vectorstore">>],
   [ok |-> FALSE, events |-> <<"load_vectorstore_failed">>]}

\* rag_answer(query, vs, k, use_reranker): the context is joined from
\* docs[:k]
RagAnswer(q, kk, rr, inst) ==
  UNION {
    IF o.status = "error"
    THEN {[ok |-> FALSE, docs |-> <<>>, context |-> <<>>,
           generated |-> FALSE, answer |-> "",
           instance |-> o.instance, events |-> RetrievalEvents(o, inst)]}
    ELSE IF o.result = <<>>
    THEN {[ok |-> TRUE, docs |-> <<>>, context |-> <<>>, generated |-> FALSE,
           answer |-> NothingFound,
           instance |-> o.instance, events |-> RetrievalEvents(o, inst)]}
    ELSE {[ok |-> TRUE, docs |-> o.result, context |-> PySlice(o.result, kk),
           generated |-> TRUE,
           answer |-> AnswerText(q, PySlice(o.result, kk)),
           instance |-> o.instance,
           events |-> RetrievalEvents(o, inst) \o <<"generate">>],
          [ok |-> FALSE, docs |-> o.result, context |-> PySlice(o.result, kk),
           generated |-> TRUE, answer |-> "",
           instance |-> o.instance,
           events |-> RetrievalEvents(o, inst) \o <<"generate">>]}
    : o \in RetrieveDocuments(q, store, kk, rr, NoInitialK, inst) }

\* api_wrapper._get_last_user_message: the last message of the list
LastMessage(msgs) ==
  IF msgs = <<>> THEN [found |-> FALSE, content |-> ""]
  ELSE [found |-> TRUE, content |-> msgs[Len(msgs)].content]

\* run_chat(messages, k, use_reranker)
RunChat(msgs, kk, rr, cached, inst) ==
  UNION {
    IF ~v.ok
    THEN {[out |-> [NoOutcome EXCEPT !.status = "Exception",
                                     !.touched = v.events],
           vs |-> FALSE, instance |-> inst]}
    ELSE IF ~LastMessage(msgs).found
    THEN {[out |-> [NoOutcome EXCEPT !.status = "ValueError",
                                     !.touched = v.events],
           vs |-> TRUE, instance |-> inst]}
    ELSE LET q == LastMessage(msgs).content IN
      UNION {
        IF o.status = "error"
        THEN {[out |-> [NoOutcome EXCEPT
                          !.status = "Exception",
                          !.touched = v.events \o RetrievalEvents(o, inst),
                          !.queries = <<q>>],
               vs |-> TRUE, instance |-> o.instance]}
        ELSE {[out |-> [status |-> IF a.ok THEN "ok" ELSE "Exception",
                        touched |-> v.events \o RetrievalEvents(o, inst)
                                      \o a.events,
                        queries |-> <<q, q>>,
                        docs |-> a.docs,
                        context |-> a.context,
                        generated |-> a.generated,
                        answer |-> a.answer,
                        messages |-> IF a.ok
                                     THEN Append(msgs, AssistantDict(a.answer))
                                     ELSE <<>>,
                        retrieved |-> IF a.ok THEN Entries(o.result) ELSE <<>>,
                        response_status |-> ""],
               vs |-> TRUE, instance |-> a.instance]
              : a \in RagAnswer(q, kk, rr, o.instance)}
        : o \in RetrieveDocuments(q, store, kk, rr, NoInitialK, inst) }
    : v \in GetVectorstore(cached) }

\* app.invoke(state_in) of run_chat_stateless, when the graph runs: the
\* input messages are the state of the one agent_node step
StatelessInvoke(msgs, cached, inst) ==
  LET st == [messages |-> AddMessages(<<>>, ToLcMessages(msgs)),
             last_retrieved |-> <<>>]
      found == GetLastUserMessage(st.messages).found
  IN UNION {
    IF ~v.ok
    THEN {[out |-> [NoOutcome EXCEPT !.status = "Exception",
                                     !.touched = v.events],
           vs |-> FALSE, instance |-> inst]}
    ELSE {[out |-> [status |-> IF o.ok THEN "ok"
                               ELSE IF ~found THEN "ValueError"
                               ELSE "Exception",
                    touched |-> v.events \o <<"get_llm">>
                      \o (IF found
                          THEN <<"search">>
                               \o (IF o.instance # inst
                                   THEN <<"construct_scorer">> ELSE <<>>)
                               \o (IF o.generated THEN <<"generate">> ELSE <<>>)
                          ELSE <<>>),
                    queries |-> IF found THEN <<o.query>> ELSE <<>>,
                    docs |-> o.docs,
                    context |-> o.docs,
                    generated |-> o.generated,
                    answer |-> IF o.ok THEN o.messages[1].content ELSE "",
                    messages |-> IF o.ok
                                 THEN ToDicts(AddMessages(st.messages, o.messages))
                                 ELSE <<>>,
                    retrieved |-> o.last_retrieved,
                    response_status |-> ""],
           vs |-> TRUE, instance |-> o.instance]
          : o \in AgentNode(st, inst)}
    : v \in GetVectorstore(cached) }

\* run_chat_stateless(messages): the graph compiled with the checkpointer
\* is invoked without a thread_id; the checkpointer refuses such a call, or
\* the graph runs without reading or writing a checkpoint
RunChatStateless(msgs, cached, inst) ==
  {[out |-> [NoOutcome EXCEPT !.status = "ValueError"],
    vs |-> cached, instance |-> inst]}
  \cup StatelessInvoke(msgs, cached, inst)

\* run_chat_langgraph_stateless(messages): _ensure_langgraph(), then a call
\* of _lg_run_stateless, a name the module does not define
RunChatLanggraphStateless(msgs, available) ==
  {[NoOutcome EXCEPT !.status = IF available THEN "NameError"
                                ELSE "RuntimeError"]}

\* ask_question(question, k, use_reranker)
AskQuestion(q, kk, rr, inst) ==
  UNION {
    IF ~v.ok
    THEN {[out |-> [NoOutcome EXCEPT !.status = "Exception",
                                     !.touched = v.events],
           instance |-> inst]}
    ELSE UNION {
        IF o.status = "error"
        THEN {[out |-> [NoOutcome EXCEPT
                          !.status = "Exception",
                          !.touched = v.events \o RetrievalEvents(o, inst),
                          !.queries = <<q>>],
               instance |-> o.instance]}
        ELSE {[out |-> [status |-> IF ok THEN "ok" ELSE "Exception",
                        touched |-> v.events \o RetrievalEvents(o, inst)
                                      \o <<"construct_llm", "generate">>,
                        queries |-> <<q>>,
                        docs |-> o.result,
                        context |-> o.result,
                        generated |-> TRUE,
                        answer |-> IF ok THEN Html(AnswerText(q, o.result))
                                   ELSE "",
                        messages |-> <<>>,
                        retrieved |-> <<>>,
                        response_status |-> ""],
               instance |-> o.instance]
              : ok \in BOOLEAN}
        : o \in RetrieveDocuments(q, store, kk, rr, NoInitialK, inst) }
    : v \in GetVectorstore(FALSE) }

\* retrieve_products(query, k, use_reranker)
RetrieveProducts(q, kk, rr, inst) ==
  UNION {
    IF ~v.ok
    THEN {[out |-> [NoOutcome EXCEPT !.status = "Exception",
                                     !.touched = v.events],
           instance |-> inst]}
    ELSE {[out |-> [NoOutcome EXCEPT
                      !.status = IF o.status = "error" THEN "Exception"
                                 ELSE "ok",
                      !.touched = v.events \o RetrievalEvents(o, inst),
                      !.queries = <<q>>,
                      !.docs = o.result,
                      !.retrieved = Entries(o.result)],
           instance |-> o.instance]
          : o \in RetrieveDocuments(q, store, kk, rr, NoInitialK, inst)}
    : v \in LoadVectorstore }

\* rag_ask_question(question, k, use_reranker, session_id) of the module
\* multi_turn_pipeline.rag_pipeline: an HTML answer, or an exception
RagAskQuestion(q, kk, rr, sid) ==
  {[ok |-> TRUE, answer |-> Html(AnswerText(q, <<>>))],
   [ok |-> FALSE, answer |-> ""]}

\* a variant of chat_handler that returns the request's messages alone
ChatHandlerNoReply(req, ready) ==
  IF ~ready THEN {[NoOutcome EXCEPT !.status = "HTTP503"]}
  ELSE IF req.session_id = "" THEN {[NoOutcome EXCEPT !.status = "HTTP400"]}
  ELSE IF req.messages = <<>> THEN {[NoOutcome EXCEPT !.status = "HTTP400"]}
  ELSE LET user_query == req.messages[Len(req.messages)].content IN
    {IF a.ok
     THEN [NoOutcome EXCEPT
             !.status = "ok",
             !.touched = <<"rag_ask_question">>,
             !.queries = <<user_query>>,
             !.answer = a.answer,
             !.messages = req.messages,
             !.response_status = "success"]
     ELSE [NoOutcome EXCEPT
             !.status = "HTTP500",
             !.touched = <<"rag_ask_question">>,
             !.queries = <<user_query>>]
     : a \in RagAskQuestion(user_query, req.k, req.use_reranker, req.session_id)}

\* chat_handler(req)
ChatHandler(req, ready) ==
  IF ~ready THEN {[NoOutcome EXCEPT !.status = "HTTP503"]}
  ELSE IF req.session_id = "" THEN {[NoOutcome EXCEPT !.status = "HTTP400"]}
  ELSE IF req.messages = <<>> THEN {[NoOutcome EXCEPT !.status = "HTTP400"]}
  ELSE LET user_query == req.messages[Len(req.messages)].content IN
    {IF a.ok
     THEN [NoOutcome EXCEPT
             !.status = "ok",
             !.touched = <<"rag_ask_question">>,
             !.queries = <<user_query>>,
             !.answer = a.answer,
             !.messages = Append(req.messages, AssistantDict(a.answer)),
             !.response_status = "success"]
     ELSE [NoOutcome EXCEPT
             !.status = "HTTP500",
             !.touched = <<"rag_ask_question">>,
             !.queries = <<user_query>>]
     : a \in RagAskQuestion(user_query, req.k, req.use_reranker, req.session_id)}

EntryIdle ==
  /\ aw_vectorstore = FALSE
  /\ lg_vectorstore = FALSE
  /\ app = FALSE
  /\ constructed = [store |-> 0, embeddings |-> 0, scorer |-> 0, generator |-> 1]
  /\ ncalls = 0
  /\ epc = "idle"
  /\ ecall = NoCall
  /\ eout = NoOutcome

\* the variables of retrieve_documents' own call, and the store
retrievalRest == <<store, rpc, query, k, use_reranker, initial_k,
                   candidate_docs, scores, result, status, requested,
                   score_calls, events>>

\* a call of run_chat, as entry point ep, with a history of histories and
\* a k of ks
RunChatCall(ep, histories, ks) ==
  /\ epc = "idle"
  /\ ncalls < MaxCalls
  /\ \E msgs \in histories, kk \in ks, rr \in BOOLEAN :
       /\ ecall' = [NoCall EXCEPT !.ep = ep, !.messages = msgs,
                                  !.k = kk, !.use_reranker = rr]
       /\ \E r \in RunChat(msgs, kk, rr, aw_vectorstore, reranker_instance) :
            /\ eout' = r.out
            /\ aw_vectorstore' = r.vs
            /\ reranker_instance' = r.instance
            /\ constructed' = Count(constructed, r.out.touched)
  /\ epc' = "done"
  /\ ncalls' = ncalls + 1
  /\ UNCHANGED <<rag_service_ready, langgraph_available, lg_vectorstore, app>>
  /\ UNCHANGED <<retrievalRest, sessionVars, getterVars, ingestVars, docVars>>

\* run_chat(messages, k, use_reranker), called with roles the docstring
\* names and a k that is 0 or positive
CallRunChat == RunChatCall("run_chat", Histories, TopKValues)

\* answer_single_turn(query, k, use_reranker): run_chat on the one user
\* message, with any k
CallAnswerSingleTurn ==
  RunChatCall("answer_single_turn", {SingleTurn(q) : q \in Queries}, KValues)

\* a call of run_chat_stateless with a history of histories
RunChatStatelessCall(histories) ==
  /\ epc = "idle"
  /\ ncalls < MaxCalls
  /\ \E msgs \in histories :
       /\ ecall' = [NoCall EXCEPT !.ep = "run_chat_stateless",
                                  !.messages = msgs]
       /\ \E r \in RunChatStateless(msgs, lg_vectorstore, reranker_instance) :
            /\ eout' = r.out
            /\ lg_vectorstore' = r.vs
            /\ reranker_instance' = r.instance
            /\ constructed' = Count(constructed, r.out.touched)
  /\ app' = TRUE
  /\ epc' = "done"
  /\ ncalls' = ncalls + 1
  /\ UNCHANGED <<rag_service_ready, langgraph_available, aw_vectorstore>>
  /\ UNCHANGED <<retrievalRest, sessionVars, getterVars, ingestVars, docVars>>

\* run_chat_stateless(messages), called with the roles the backend sends
CallRunChatStateless == RunChatStatelessCall(Histories)

\* run_chat_stateless(messages), called with any role or none
CallRunChatStatelessAnyRole == RunChatStatelessCall(AnyRoleHistories)

CallRunChatLanggraphStateless ==
  /\ epc = "idle"
  /\ ncalls < MaxCalls
  /\ \E msgs \in Histories :
       /\ ecall' = [NoCall EXCEPT !.ep = "run_chat_langgraph_stateless",
                                  !.messages = msgs]
       /\ \E r \in RunChatLanggraphStateless(msgs, langgraph_available) :
            eout' = r
  /\ epc' = "done"
  /\ ncalls' = ncalls + 1
  /\ UNCHANGED <<rag_service_ready, langgraph_available, aw_vectorstore,
                 lg_vectorstore, app, constructed>>
  /\ UNCHANGED <<retrievalVars, sessionVars, getterVars, ingestVars, docVars>>

CallChatHandler ==
  /\ epc = "idle"
  /\ ncalls < MaxCalls
  /\ \E msgs \in Histories, kk \in TopKValues, rr \in BOOLEAN,
        sid \in SessionIds :
       LET req == [NoCall EXCEPT !.ep = "chat_handler", !.messages = msgs,
                                 !.k = kk, !.use_reranker = rr,
                                 !.session_id = sid]
       IN /\ ecall' = req
          /\ \E r \in ChatHandler(req, rag_service_ready) : eout' = r
  /\ epc' = "done"
  /\ ncalls' = ncalls + 1
  /\ UNCHANGED <<rag_service_ready, langgraph_available, aw_vectorstore,
                 lg_vectorstore, app, constructed>>
  /\ UNCHANGED <<retrievalVars, sessionVars, getterVars, ingestVars, docVars>>

CallAskQuestion ==
  /\ epc = "idle"
  /\ ncalls < MaxCalls
  /\ \E q \in Queries, kk \in TopKValues, rr \in BOOLEAN :
       /\ ecall' = [NoCall EXCEPT !.ep = "ask_question", !.question = q,
                                  !.k = kk, !.use_reranker = rr]
       /\ \E r \in AskQuestion(q, kk, rr, reranker_instance) :
            /\ eout' = r.out
            /\ reranker_instance' = r.instance
            /\ constructed' = Count(constructed, r.out.touched)
  /\ epc' = "done"
  /\ ncalls' = ncalls + 1
  /\ UNCHANGED <<rag_service_ready, langgraph_available, aw_vectorstore,
                 lg_vectorstore, app>>
  /\ UNCHANGED <<retrievalRest, sessionVars, getterVars, ingestVars, docVars>>

CallRetrieveProducts ==
  /\ epc = "idle"
  /\ ncalls < MaxCalls
  /\ \E q \in Queries, kk \in TopKValues, rr \in BOOLEAN :
       /\ ecall' = [NoCall EXCEPT !.ep = "retrieve_products", !.question = q,
                                  !.k = kk, !.use_reranker = rr]
       /\ \E r \in RetrieveProducts(q, kk, rr, reranker_instance) :
            /\ eout' = r.out
            /\ reranker_instance' = r.instance
            /\ constructed' = Count(constructed, r.out.touched)
  /\ epc' = "done"
  /\ ncalls' = ncalls + 1
  /\ UNCHANGED <<rag_service_ready, langgraph_available, aw_vectorstore,
                 lg_vectorstore, app>>
  /\ UNCHANGED <<retrievalRest, sessionVars, getterVars, ingestVars, docVars>>

\* the caller has the result or the exception; the next call may start
EntryReturn ==
  /\ epc = "done"
  /\ epc' = "idle"
  /\ ecall' = NoCall
  /\ eout' = NoOutcome
  /\ UNCHANGED <<rag_service_ready, langgraph_available, aw_vectorstore,
                 lg_vectorstore, app, constructed, ncalls>>
  /\ UNCHANGED <<retrievalVars, sessionVars, getterVars, ingestVars, docVars>>

(***************************************************************************)
(* The lazily built singletons: get_bge_reranker and get_hf_llm            *)
(* (vector_pipeline/config.py), get_vectorstore (langgraph_app/config.py)  *)
(* and get_app (graph.py), called by threads that run concurrently.  Each  *)
(* getter tests its module-level variable, builds the object when the      *)
(* variable is None, assigns it, and returns the variable's value.         *)
(***************************************************************************)
\* gets started in one run of the singleton model
MaxGets == 3

Resources == {"reranker", "llm", "vectorstore", "app"}

\* `if _instance is None`: the caller builds when the variable is unset
NeedsBuild(inst) == inst = 0

GettersIdle ==
  /\ ginstance = [r \in Resources |-> 0]
  /\ gbuilt = [r \in Resources |-> 0]
  /\ gpc = [t \in Threads |-> "idle"]
  /\ gwant = [t \in Threads |-> "reranker"]
  /\ glocal = [t \in Threads |-> 0]
  /\ ggot = [t \in Threads |-> 0]
  /\ ngets = 0

\* what the getter actions leave alone
notGetters == <<retrievalVars, sessionVars, entryVars, ingestVars, docVars>>

\* a thread enters a getter and tests the module-level variable
GetCheck(t) ==
  /\ gpc[t] = "idle"
  /\ ngets < MaxGets
  /\ \E r \in Resources :
       /\ gwant' = [gwant EXCEPT ![t] = r]
       /\ gpc' = [gpc EXCEPT ![t] = IF NeedsBuild(ginstance[r])
                                    THEN "construct" ELSE "return"]
  /\ ngets' = ngets + 1
  /\ UNCHANGED <<ginstance, gbuilt, glocal, ggot>>
  /\ UNCHANGED notGetters

\* the thread builds the object: a new one each time
GetConstruct(t) ==
  /\ gpc[t] = "construct"
  /\ gbuilt' = [gbuilt EXCEPT ![gwant[t]] = @ + 1]
  /\ glocal' = [glocal EXCEPT ![t] = gbuilt'[gwant[t]]]
  /\ gpc' = [gpc EXCEPT ![t] = "assign"]
  /\ UNCHANGED <<ginstance, gwant, ggot, ngets>>
  /\ UNCHANGED notGetters

\* the thread assigns the object it built to the module-level variable
GetAssign(t) ==
  /\ gpc[t] = "assign"
  /\ ginstance' = [ginstance EXCEPT ![gwant[t]] = glocal[t]]
  /\ gpc' = [gpc EXCEPT ![t] = "return"]
  /\ UNCHANGED <<gbuilt, gwant, glocal, ggot, ngets>>
  /\ UNCHANGED notGetters

\* the thread returns the value of the module-level variable
GetReturn(t) ==
  /\ gpc[t] = "return"
  /\ ggot' = [ggot EXCEPT ![t] = ginstance[gwant[t]]]
  /\ gpc' = [gpc EXCEPT ![t] = "done"]
  /\ UNCHANGED <<ginstance, gbuilt, gwant, glocal, ngets>>
  /\ UNCHANGED notGetters

\* the caller goes on with the instance it received
GetEnd(t) ==
  /\ gpc[t] = "done"
  /\ gpc' = [gpc EXCEPT ![t] = "idle"]
  /\ gwant' = [gwant EXCEPT ![t] = "reranker"]
  /\ glocal' = [glocal EXCEPT ![t] = 0]
  /\ ggot' = [ggot EXCEPT ![t] = 0]
  /\ UNCHANGED <<ginstance, gbuilt, ngets>>
  /\ UNCHANGED notGetters

(***************************************************************************)
(* The offline ingestion pipeline: build_chroma_vectorstore and            *)
(* build_or_load_vectorstore over the source at DATA_PATH, the directory   *)
(* CHROMA_DIR and the archive CHROMA_ARCHIVE.  A chunk is its number.      *)
(***************************************************************************)
\* largest number of chunks the source yields
MaxSourceChunks == 2
\* ingestion calls made in one run of the ingestion model
MaxRuns == 2

\* the pickle at DATA_PATH: missing, without the combined-text column, or
\* a dataframe whose rows yield n chunks
Sources ==
  {[kind |-> "missing", n |-> 0], [kind |-> "no_column", n |-> 0]}
  \cup {[kind |-> "ok", n |-> n] : n \in 1..MaxSourceChunks}

\* CHROMA_DIR: whether it exists, whether it holds files, the entries of
\* the collection in it (one chunk each, in the order written), and
\* (history) whether they are all chunks of a build
NoDir == [exists |-> FALSE, files |-> FALSE, chunks |-> <<>>, complete |-> FALSE]
EmptyDir == [exists |-> TRUE, files |-> FALSE, chunks |-> <<>>, complete |-> FALSE]
StoreDir(chunks, complete) ==
  [exists |-> TRUE, files |-> TRUE, chunks |-> chunks, complete |-> complete]

\* the chunks of the store packed in chroma_db.zip
ArchiveChunks == <<1>>

\* a variant of load_dataframe that does not test for the column
AfterLoadUnchecked(kind) ==
  IF kind = "missing" THEN [pc |-> "failed", status |-> "Exception"]
  ELSE [pc |-> "chunk", status |-> "running"]

\* load_dataframe: read_pickle raises on a missing file, a dataframe
\* without COMBINED_TEXT_COLUMN raises ValueError, any other is returned
AfterLoad(kind) ==
  IF kind = "missing" THEN [pc |-> "failed", status |-> "Exception"]
  ELSE IF kind = "no_column" THEN [pc |-> "failed", status |-> "ValueError"]
  ELSE [pc |-> "chunk", status |-> "running"]

\* a variant of the rebuild that keeps the old directory
DiscardedNever(dir) == dir

\* `if CHROMA_DIR.exists(): shutil.rmtree(CHROMA_DIR)`: what is left of
\* the directory
Discarded(dir) == IF dir.exists THEN NoDir ELSE dir

\* a variant that loads whatever directory exists, empty or not
LoadPathExistsOnly(dir, arch) ==
  IF dir.exists THEN "load"
  ELSE IF arch THEN "unpack"
  ELSE "build"

\* `CHROMA_DIR.exists() and any(CHROMA_DIR.iterdir())`, then
\* `CHROMA_ARCHIVE.exists()`: which way build_or_load_vectorstore goes
LoadPath(dir, arch) ==
  IF dir.exists /\ dir.files THEN "load"
  ELSE IF arch THEN "unpack"
  ELSE "build"

IngestIdle ==
  /\ ipc = "idle"
  /\ iop = "none"
  /\ ipath = "none"
  /\ ichunks = 0
  /\ iwritten = 0
  /\ istatus = "none"
  /\ ihandle = <<>>
  /\ ibefore = NoDir
  /\ nruns = 0

\* what the ingestion actions leave alone
notIngest == <<retrievalVars, sessionVars, entryVars, getterVars, docVars>>

\* build_chroma_vectorstore() is called (python -m vector_pipeline.ingestion)
StartBuild ==
  /\ ipc = "idle"
  /\ nruns < MaxRuns
  /\ iop' = "build"
  /\ ipath' = "build"
  /\ ipc' = "load"
  /\ istatus' = "running"
  /\ ibefore' = chroma_dir
  /\ nruns' = nruns + 1
  /\ UNCHANGED <<source, chroma_dir, archive, ichunks, iwritten, ihandle>>
  /\ UNCHANGED notIngest

\* build_or_load_vectorstore() is called: it loads the existing directory,
\* or unpacks the archive over it and loads (or unpack_archive raises on
\* the directory it has just made), or goes on to build
StartBuildOrLoad ==
  /\ ipc = "idle"
  /\ nruns < MaxRuns
  /\ iop' = "build_or_load"
  /\ ipath' = LoadPath(chroma_dir, archive)
  /\ ibefore' = chroma_dir
  /\ nruns' = nruns + 1
  /\ CASE LoadPath(chroma_dir, archive) = "load" ->
            /\ ihandle' = chroma_dir.chunks
            /\ istatus' = "ok"
            /\ ipc' = "done"
            /\ UNCHANGED chroma_dir
       [] LoadPath(chroma_dir, archive) = "unpack" ->
            \/ /\ chroma_dir' = StoreDir(ArchiveChunks, TRUE)
               /\ ihandle' = ArchiveChunks
               /\ istatus' = "ok"
               /\ ipc' = "done"
            \/ /\ chroma_dir' = EmptyDir
               /\ ihandle' = <<>>
               /\ istatus' = "Exception"
               /\ ipc' = "failed"
       [] OTHER ->
            /\ istatus' = "running"
            /\ ipc' = "load"
            /\ UNCHANGED <<chroma_dir, ihandle>>
  /\ UNCHANGED <<source, archive, ichunks, iwritten>>
  /\ UNCHANGED notIngest

\* df = load_dataframe()
LoadDataframe ==
  /\ ipc = "load"
  /\ ipc' = AfterLoad(source.kind).pc
  /\ istatus' = AfterLoad(source.kind).status
  /\ UNCHANGED <<source, chroma_dir, archive, iop, ipath, ichunks, iwritten,
                 ihandle, ibefore, nruns>>
  /\ UNCHANGED notIngest

\* dataframe_to_documents, chunk_documents and get_bge_embeddings(), which
\* returns the embedding object or raises
ChunkDocuments ==
  /\ ipc = "chunk"
  /\ ichunks' = source.n
  /\ \/ /\ ipc' = "remove"
        /\ UNCHANGED istatus
     \/ /\ ipc' = "failed"
        /\ istatus' = "Exception"
  /\ UNCHANGED <<source, chroma_dir, archive, iop, ipath, iwritten, ihandle,
                 ibefore, nruns>>
  /\ UNCHANGED notIngest

\* `if CHROMA_DIR.exists(): shutil.rmtree(CHROMA_DIR)`
RemoveOld ==
  /\ ipc = "remove"
  /\ chroma_dir' = Discarded(chroma_dir)
  /\ ipc' = "create"
  /\ UNCHANGED <<source, archive, iop, ipath, ichunks, iwritten, istatus,
                 ihandle, ibefore, nruns>>
  /\ UNCHANGED notIngest

\* Chroma.from_documents opens the persistent collection in CHROMA_DIR,
\* which is created when the directory does not hold one
CreateStore ==
  /\ ipc = "create"
  /\ \/ /\ chroma_dir' = StoreDir(chroma_dir.chunks, FALSE)
        /\ ipc' = "write"
        /\ UNCHANGED istatus
     \/ /\ ipc' = "failed"
        /\ istatus' = "Exception"
        /\ UNCHANGED chroma_dir
  /\ iwritten' = 0
  /\ UNCHANGED <<source, archive, iop, ipath, ichunks, ihandle, ibefore, nruns>>
  /\ UNCHANGED notIngest

\* Chroma.from_documents embeds the next batch of chunks and adds it to
\* the collection as entries with new ids, or the embedding or the write
\* raises
WriteBatch ==
  /\ ipc = "write"
  /\ iwritten < ichunks
  /\ \/ /\ chroma_dir' = [chroma_dir EXCEPT !.chunks = Append(@, iwritten + 1)]
        /\ iwritten' = iwritten + 1
        /\ UNCHANGED <<ipc, istatus>>
     \/ /\ ipc' = "failed"
        /\ istatus' = "Exception"
        /\ UNCHANGED <<chroma_dir, iwritten>>
  /\ UNCHANGED <<source, archive, iop, ipath, ichunks, ihandle, ibefore, nruns>>
  /\ UNCHANGED notIngest

\* every chunk is written: from_documents returns the vectorstore
FinishBuild ==
  /\ ipc = "write"
  /\ iwritten = ichunks
  /\ chroma_dir' = [chroma_dir EXCEPT !.complete = TRUE]
  /\ ihandle' = chroma_dir.chunks
  /\ istatus' = "ok"
  /\ ipc' = "done"
  /\ UNCHANGED <<source, archive, iop, ipath, ichunks, iwritten, ibefore, nruns>>
  /\ UNCHANGED notIngest

\* the caller has the vectorstore or the exception
IngestReturn ==
  /\ ipc \in {"done", "failed"}
  /\ ipc' = "idle"
  /\ iop' = "none"
  /\ ipath' = "none"
  /\ ichunks' = 0
  /\ iwritten' = 0
  /\ istatus' = "none"
  /\ ihandle' = <<>>
  /\ ibefore' = NoDir
  /\ UNCHANGED <<source, chroma_dir, archive, nruns>>
  /\ UNCHANGED notIngest

(***************************************************************************)
(* From the dataframe to the chunks: load_dataframe,                       *)
(* dataframe_to_documents and chunk_documents (vector_pipeline/            *)
(* ingestion.py).  A text is a sequence of characters; a cell of another   *)
(* column is null, a string or an integer.                                 *)
(***************************************************************************)
\* largest number of rows of the dataframe at DATA_PATH
MaxRows == 2
\* longest combined text of a row, in characters
MaxText == 4
\* settings.CHUNK_SIZE and settings.CHUNK_OVERLAP, scaled to the texts above
\* (1500 and 100 characters in settings.py)
CHUNK_SIZE == 3
CHUNK_OVERLAP == 1

COMBINED_TEXT_COLUMN == "combined_text"

\* the characters of a text: a letter and the blank
Chars == {"a", " "}
Whitespace == {" "}
Texts == UNION {[1..n -> Chars] : n \in 0..MaxText}

\* the separators of RecursiveCharacterTextSplitter that can occur in a text
\* without line breaks ("\n\n" and "\n" come first and never match), and ""
Separators == <<" ", "">>

\* cells: NaN/None, a string (v numbers it, 0 is "") or an integer
Null == [kind |-> "null", v |-> 0]
StrCell(n) == [kind |-> "str", v |-> n]
IntCell(n) == [kind |-> "int", v |-> n]
OtherCells == {Null, IntCell(7)}
\* the combined-text cell: null, or a text
TextCells == {[null |-> TRUE, chars |-> <<>>]}
             \cup {[null |-> FALSE, chars |-> t] : t \in Texts}

\* the other columns a dataframe may have
OtherColumns == {"name", "row_index", "start_index"}
\* the column sets of the dataframes: without the combined-text column, or
\* with it and at most one other column
ColumnSets == {{"name"}, {COMBINED_TEXT_COLUMN}}
              \cup {{COMBINED_TEXT_COLUMN, c} : c \in OtherColumns}

RowsOver(cols) ==
  [text : IF COMBINED_TEXT_COLUMN \in cols THEN TextCells
          ELSE {[null |-> TRUE, chars |-> <<>>]},
   cells : [cols \ {COMBINED_TEXT_COLUMN} -> OtherCells]]

Frames ==
  UNION {[columns : {cols},
          rows : UNION {[1..n -> RowsOver(cols)] : n \in 0..MaxRows}]
         : cols \in ColumnSets}

NoFrame == [columns |-> {}, rows |-> <<>>]

\* df.dropna(subset=[COMBINED_TEXT_COLUMN]): the rows whose combined text
\* is not null, in order
RECURSIVE DropNa(_)
DropNa(rows) ==
  IF rows = <<>> THEN <<>>
  ELSE (IF Head(rows).text.null THEN <<>> ELSE <<Head(rows)>>)
       \o DropNa(Tail(rows))

\* df.fillna(""): a null cell becomes the empty string
FillNa(cell) == IF cell.kind = "null" THEN StrCell(0) ELSE cell

\* load_dataframe: ValueError without the column; else dropna on the
\* combined-text column, then fillna("")
LoadedDataframe(pickle) ==
  IF COMBINED_TEXT_COLUMN \notin pickle.columns
  THEN [ok |-> FALSE, df |-> NoFrame]
  ELSE [ok |-> TRUE,
        df |-> [columns |-> pickle.columns,
                rows |-> LET kept == DropNa(pickle.rows)
                         IN [i \in 1..Len(kept) |->
                               [text |-> kept[i].text,
                                cells |-> [c \in DOMAIN kept[i].cells |->
                                             FillNa(kept[i].cells[c])]]]]]

\* dataframe_to_documents: row.to_dict() without the combined text, then
\* metadata["row_index"] = int(row_index) of enumerate(df.iterrows())
DataframeToDocuments(dframe) ==
  [i \in 1..Len(dframe.rows) |->
     [page_content |-> dframe.rows[i].text.chars,
      metadata |-> [c \in DOMAIN dframe.rows[i].cells \cup {"row_index"} |->
                      IF c = "row_index" THEN IntCell(i - 1)
                      ELSE dframe.rows[i].cells[c]]]]

\* the elements of a set of integers in ascending order
RECURSIVE Ascending(_)
Ascending(S) ==
  IF S = {} THEN <<>>
  ELSE LET m == CHOOSE x \in S : \A y \in S : x <= y
       IN <<m>> \o Ascending(S \ {m})

\* _split_text_with_regex with keep_separator=True: the text is cut before
\* every occurrence of the separator (between all characters for ""), and
\* empty pieces are dropped
SplitTextWithRegex(text, separator) ==
  IF text = <<>> THEN <<>>
  ELSE LET cuts == {1} \cup {i \in 1..Len(text) :
                               separator = "" \/ text[i] = separator}
           starts == Ascending(cuts)
       IN [j \in 1..Len(starts) |->
             SubSeq(text, starts[j],
                    IF j < Len(starts) THEN starts[j + 1] - 1 ELSE Len(text))]

\* "".join(docs)
RECURSIVE Join(_)
Join(docs) == IF docs = <<>> THEN <<>> ELSE Head(docs) \o Join(Tail(docs))

\* str.strip()
RECURSIVE LStrip(_)
LStrip(t) ==
  IF t # <<>> /\ Head(t) \in Whitespace THEN LStrip(Tail(t)) ELSE t
RECURSIVE RStrip(_)
RStrip(t) ==
  IF t # <<>> /\ t[Len(t)] \in Whitespace
  THEN RStrip(SubSeq(t, 1, Len(t) - 1)) ELSE t
Strip(t) == RStrip(LStrip(t))

\* _join_docs: the joined text, stripped (strip_whitespace is left at its
\* default), or nothing when that is empty
JoinDocs(current) ==
  IF Strip(Join(current)) = <<>> THEN <<>> ELSE <<Strip(Join(current))>>

\* the while loop of _merge_splits: drop splits from the front of
\* current_doc until what is kept fits the overlap and the next split fits
RECURSIVE PopFront(_, _, _)
PopFront(current, total, len) ==
  IF total > CHUNK_OVERLAP \/ (total + len > CHUNK_SIZE /\ total > 0)
  THEN PopFront(Tail(current), total - Len(Head(current)), len)
  ELSE [current |-> current, total |-> total]

\* _merge_splits(splits, "") from the state (docs, current_doc, total)
RECURSIVE MergeLoop(_, _, _, _)
MergeLoop(splits, docs, current, total) ==
  IF splits = <<>> THEN docs \o JoinDocs(current)
  ELSE LET d == Head(splits)
           full == total + Len(d) > CHUNK_SIZE
           emit == full /\ current # <<>>
           kept == IF emit THEN PopFront(current, total, Len(d))
                   ELSE [current |-> current, total |-> total]
       IN MergeLoop(Tail(splits),
                    IF emit THEN docs \o JoinDocs(current) ELSE docs,
                    Append(kept.current, d),
                    kept.total + Len(d))

MergeSplits(splits) == MergeLoop(splits, <<>>, <<>>, 0)

\* the separator _split_text picks: the first one that is "" or occurs in
\* the text, with the separators after it
RECURSIVE PickSeparator(_, _)
PickSeparator(text, separators) ==
  IF Len(separators) = 1 \/ Head(separators) = ""
  THEN [separator |-> Head(separators), rest |-> <<>>]
  ELSE IF \E i \in 1..Len(text) : text[i] = Head(separators)
  THEN [separator |-> Head(separators), rest |-> Tail(separators)]
  ELSE PickSeparator(text, Tail(separators))

\* RecursiveCharacterTextSplitter._split_text: splits shorter than the
\* chunk size are collected and merged; a longer one is split again with
\* the remaining separators
RECURSIVE SplitText(_, _)
RECURSIVE SplitLoop(_, _, _)
SplitLoop(splits, good, rest) ==
  IF splits = <<>>
  THEN (IF good # <<>> THEN MergeSplits(good) ELSE <<>>)
  ELSE LET s == Head(splits) IN
    IF Len(s) < CHUNK_SIZE THEN SplitLoop(Tail(splits), Append(good, s), rest)
    ELSE (IF good # <<>> THEN MergeSplits(good) ELSE <<>>)
         \o (IF rest = <<>> THEN <<s>> ELSE SplitText(s, rest))
         \o SplitLoop(Tail(splits), <<>>, rest)

SplitText(text, separators) ==
  LET p == PickSeparator(text, separators)
  IN SplitLoop(SplitTextWithRegex(text, p.separator), <<>>, p.rest)

\* str.find(sub, start): the first offset from start on at which sub
\* occurs, or -1
Find(text, sub, start) ==
  LET at == {p \in start..(Len(text) - Len(sub)) :
               SubSeq(text, p + 1, p + Len(sub)) = sub}
  IN IF at = {} THEN 0 - 1 ELSE CHOOSE p \in at : \A q \in at : p <= q

\* create_documents with add_start_index=True, for one document: each
\* chunk gets a copy of the metadata, and metadata["start_index"] is set
\* to the offset found from index + previous_chunk_len - chunk_overlap on
RECURSIVE StartIndexLoop(_, _, _, _)
StartIndexLoop(doc, chunks, index, previous_chunk_len) ==
  IF chunks = <<>> THEN <<>>
  ELSE LET chunk == Head(chunks)
           offset == index + previous_chunk_len - CHUNK_OVERLAP
           found == Find(doc.page_content, chunk, Max(0, offset))
       IN <<[page_content |-> chunk,
             metadata |-> [c \in DOMAIN doc.metadata \cup {"start_index"} |->
                             IF c = "start_index" THEN IntCell(found)
                             ELSE doc.metadata[c]]]>>
          \o StartIndexLoop(doc, Tail(chunks), found, Len(chunk))

CreateDocuments(doc) ==
  StartIndexLoop(doc, SplitText(doc.page_content, Separators), 0, 0)

\* chunk_documents: splitter.split_documents(documents)
RECURSIVE SplitDocuments(_)
SplitDocuments(documents) ==
  IF documents = <<>> THEN <<>>
  ELSE CreateDocuments(Head(documents)) \o SplitDocuments(Tail(documents))

DocsIdle ==
  /\ dpc = "idle"
  /\ df = NoFrame
  /\ raw_docs = <<>>
  /\ chunked_docs = <<>>

\* what the actions of this part leave alone
notDocs == <<retrievalVars, sessionVars, entryVars, getterVars, ingestVars>>

\* df = load_dataframe()
DocLoad ==
  /\ dpc = "idle"
  /\ df' = LoadedDataframe(frame).df
  /\ dpc' = IF LoadedDataframe(frame).ok THEN "loaded" ELSE "failed"
  /\ UNCHANGED <<frame, raw_docs, chunked_docs>>
  /\ UNCHANGED notDocs

\* raw_docs = dataframe_to_documents(df)
DocConvert ==
  /\ dpc = "loaded"
  /\ raw_docs' = DataframeToDocuments(df)
  /\ dpc' = "converted"
  /\ UNCHANGED <<frame, df, chunked_docs>>
  /\ UNCHANGED notDocs

\* chunked_docs = chunk_documents(raw_docs)
DocChunk ==
  /\ dpc = "converted"
  /\ chunked_docs' = SplitDocuments(raw_docs)
  /\ dpc' = "chunked"
  /\ UNCHANGED <<frame, df, raw_docs>>
  /\ UNCHANGED notDocs

(***************************************************************************)
(* The specifications: the retrieval engine alone, and the sessions.       *)
(***************************************************************************)
\* the other parts at rest, with the optional modules imported
OthersIdle ==
  /\ rag_service_ready = TRUE
  /\ langgraph_available = TRUE
  /\ EntryIdle
  /\ GettersIdle
  /\ source = [kind |-> "ok", n |-> 1]
  /\ chroma_dir = StoreDir(<<1>>, TRUE)
  /\ archive = FALSE
  /\ IngestIdle
  /\ frame = NoFrame
  /\ DocsIdle

InitRetrieval ==
  /\ store \in {[i \in 1..n |-> i] : n \in 0..MaxChunks}
  /\ RetrievalIdle
  /\ SessionIdle
  /\ OthersIdle

Next ==
  \/ Call
  \/ SimpleSearch
  \/ Stage1
  \/ GetReranker
  \/ Score
  \/ SortAndReturn
  \/ Finish

Spec == InitRetrieval /\ [][Next]_vars

InitSession ==
  /\ store \in {[i \in 1..n |-> i] : n \in 0..MaxSessionChunks}
  /\ RetrievalIdle
  /\ SessionIdle
  /\ OthersIdle

NextSession ==
  \/ \E t \in Threads : BeginTurn(t)
  \/ \E t \in Threads : SaveInput(t)
  \/ \E t \in Threads : RunAgent(t)
  \/ \E t \in Threads : SaveOutput(t)
  \/ \E t \in Threads : EndTurn(t)

SpecSession == InitSession /\ [][NextSession]_vars

InitEntry ==
  /\ store \in {[i \in 1..n |-> i] : n \in 0..MaxSessionChunks}
  /\ RetrievalIdle
  /\ SessionIdle
  /\ rag_service_ready \in BOOLEAN
  /\ langgraph_available \in BOOLEAN
  /\ EntryIdle
  /\ GettersIdle
  /\ source = [kind |-> "ok", n |-> 1]
  /\ chroma_dir = StoreDir(<<1>>, TRUE)
  /\ archive = FALSE
  /\ IngestIdle
  /\ frame = NoFrame
  /\ DocsIdle

NextEntry ==
  \/ CallRunChat
  \/ CallRunChatStateless
  \/ CallRunChatLanggraphStateless
  \/ CallChatHandler
  \/ CallAskQuestion
  \/ CallRetrieveProducts
  \/ EntryReturn

SpecEntry == InitEntry /\ [][NextEntry]_vars

\* the stateless turns with arguments the code does not restrict
InitAnyCaller ==
  /\ store \in {[i \in 1..n |-> i] : n \in 0..MaxCallerChunks}
  /\ RetrievalIdle
  /\ SessionIdle
  /\ OthersIdle

NextAnyCaller ==
  \/ CallAnswerSingleTurn
  \/ CallRunChatStatelessAnyRole
  \/ EntryReturn

SpecAnyCaller == InitAnyCaller /\ [][NextAnyCaller]_vars

InitGetters ==
  /\ store = <<>>
  /\ RetrievalIdle
  /\ SessionIdle
  /\ OthersIdle

NextGetters ==
  \/ \E t \in Threads : GetCheck(t)
  \/ \E t \in Threads : GetConstruct(t)
  \/ \E t \in Threads : GetAssign(t)
  \/ \E t \in Threads : GetReturn(t)
  \/ \E t \in Threads : GetEnd(t)

SpecGetters == InitGetters /\ [][NextGetters]_vars

InitIngest ==
  /\ store = <<>>
  /\ RetrievalIdle
  /\ SessionIdle
  /\ rag_service_ready = TRUE
  /\ langgraph_available = TRUE
  /\ EntryIdle
  /\ GettersIdle
  /\ source \in Sources
  /\ chroma_dir \in {NoDir, EmptyDir}
                    \cup {StoreDir([i \in 1..n |-> i], TRUE) : n \in 1..MaxSourceChunks}
  /\ archive \in BOOLEAN
  /\ IngestIdle
  /\ frame = NoFrame
  /\ DocsIdle

NextIngest ==
  \/ StartBuild
  \/ StartBuildOrLoad
  \/ LoadDataframe
  \/ ChunkDocuments
  \/ RemoveOld
  \/ CreateStore
  \/ WriteBatch
  \/ FinishBuild
  \/ IngestReturn

SpecIngest == InitIngest /\ [][NextIngest]_vars

InitDocs ==
  /\ store = <<>>
  /\ RetrievalIdle
  /\ SessionIdle
  /\ rag_service_ready = TRUE
  /\ langgraph_available = TRUE
  /\ EntryIdle
  /\ GettersIdle
  /\ source = [kind |-> "ok", n |-> 1]
  /\ chroma_dir = StoreDir(<<1>>, TRUE)
  /\ archive = FALSE
  /\ IngestIdle
  /\ frame \in Frames
  /\ DocsIdle

NextDocs ==
  \/ DocLoad
  \/ DocConvert
  \/ DocChunk

SpecDocs == InitDocs /\ [][NextDocs]_vars

(***************************************************************************)
(* Properties of retrieve_documents.                                       *)
(***************************************************************************)
Returned == rpc = "done" /\ status = "ok"
Chunks == {store[i] : i \in 1..Len(store)}
Elems(s) == {s[i] : i \in 1..Len(s)}
NoRepeats(s) == \A i, j \in 1..Len(s) : s[i] = s[j] => i = j
InEvents(e) == \E i \in 1..Len(events) : events[i] = e
\* the cross-encoder score the current call gave candidate d
ScoreOf(d) == scores[CHOOSE i \in 1..Len(candidate_docs) : candidate_docs[i] = d]

C3_RerankedTopK ==
  (Returned /\ use_reranker /\ candidate_docs # <<>>) =>
    /\ Elems(result) \subseteq Elems(candidate_docs)
    /\ NoRepeats(result)
    /\ \A i, j \in 1..Len(result) :
         i < j => ScoreOf(result[i]) >= ScoreOf(result[j])
    /\ \A c \in Elems(candidate_docs) \ Elems(result) :
         \A r \in Elems(result) : ScoreOf(c) <= ScoreOf(r)
    /\ k > 0 => Len(result) = Min(k, Len(candidate_docs))

C3_Witness ==
  /\ Returned
  /\ use_reranker
  /\ k = 2
  /\ Len(candidate_docs) = 3
  /\ Len(result) = 2
  /\ scores = <<0, 1, 1>>
  /\ result = <<candidate_docs[2], candidate_docs[3]>>

\* C4: without the reranker and with positive k, the result is the store's
\* min(k, n) most similar chunks in descending similarity order, and the
\* call does nothing but the one search: no scorer is built or invoked.
C4_VectorOnly ==
  (Returned /\ ~use_reranker /\ k > 0) =>
    /\ Len(result) = Min(k, Len(store))
    /\ Elems(result) \subseteq Chunks
    /\ NoRepeats(result)
    /\ \A i, j \in 1..Len(result) :
         i < j => Similarity(query, result[i]) >= Similarity(query, result[j])
    /\ \A c \in Chunks \ Elems(result) :
         \A r \in Elems(result) : Similarity(query, c) <= Similarity(query, r)
    /\ events = <<"search">>
    /\ score_calls = <<>>
    /\ scores = <<>>

C4_Witness ==
  /\ Returned
  /\ ~use_reranker
  /\ query = "B"
  /\ k = 2
  /\ store = <<1, 2, 3>>
  /\ result = <<3, 2>>

\* C5: in a call with the reranker, the scorer is invoked at most once,
\* only after the stage-1 search, with all candidates in one batch, and
\* yields one score per candidate; a returned call with candidates invoked
\* it exactly once; a call whose stage 1 found nothing returns the empty
\* sequence and touches no scorer.
C5_ScorerOnceAfterStage1 ==
  use_reranker =>
    /\ Len(score_calls) <= 1
    /\ score_calls # <<>> =>
         /\ events[1] = "search"
         /\ candidate_docs # <<>>
         /\ score_calls[1] = candidate_docs
    /\ scores # <<>> => Len(scores) = Len(candidate_docs)
    /\ (Returned /\ candidate_docs # <<>>) =>
         /\ Len(score_calls) = 1
         /\ Len(scores) = Len(candidate_docs)
    /\ (Returned /\ candidate_docs = <<>>) =>
         /\ result = <<>>
         /\ score_calls = <<>>
         /\ events = <<"search">>

C5_Witness ==
  /\ Returned
  /\ use_reranker
  /\ Len(candidate_docs) = 3
  /\ score_calls = <<candidate_docs>>
  /\ events = <<"search", "get_reranker", "score", "sort">>

\* C6 as stated: a call with k <= 0 ends in an error, never in a result.
C6_NonPositiveKFails ==
  (rpc = "done" /\ k <= 0) => status = "error"

\* C7: when building the scorer or scoring raises, the call ends in an
\* error and returns nothing: no vector-only ranking stands in for it.
C7_ScorerFailureSurfaces ==
  (InEvents("construct_failed") \/ InEvents("score_failed")) =>
    /\ rpc \in {"done", "idle"}
    /\ status = "error"
    /\ result = <<>>

C7_Witness ==
  /\ rpc = "done"
  /\ InEvents("score_failed")
  /\ Len(candidate_docs) = 3
  /\ status = "error"

(***************************************************************************)
(* Properties of the stateful turns.                                       *)
(***************************************************************************)
RunningOn(s) == {t \in Threads : tpc[t] \in Running /\ tsid[t] = s}
UserDict(c) == [role |-> "user", content |-> c]

\* C8: on a session whose turns so far ran one after the other and all
\* succeeded, after n turns the stored history has 2n messages alternating
\* user, assistant, the i-th user message being the i-th turn's text; each
\* turn returns what it stored, with the history it found as a prefix
\* followed by its user message and one assistant message.
C8_SequentialHistory ==
  \A s \in Sessions : clean[s] =>
    /\ RunningOn(s) = {} =>
         LET h == memory[s].messages IN
         /\ Len(h) = 2 * Len(sent[s])
         /\ \A i \in 1..Len(sent[s]) :
              /\ h[2 * i - 1] = HumanMessage(sent[s][i])
              /\ h[2 * i].type = "ai"
    /\ \A t \in Threads : (tpc[t] = "done" /\ tsid[t] = s) =>
         LET r == tret[t].messages IN
         /\ Len(r) = 2 * tnum[t]
         /\ \A i \in 1..tnum[t] :
              /\ r[2 * i - 1] = UserDict(sent[s][i])
              /\ r[2 * i].role = "assistant"
         /\ sent[s][tnum[t]] = tmsg[t]
         /\ SubSeq(r, 1, Len(r) - 2) = ToDicts(tbefore[t])
         /\ r[Len(r)].content = tret[t].answer
         /\ (tnum[t] = Len(sent[s]) /\ RunningOn(s) = {})
              => r = ToDicts(memory[s].messages)

C8_Witness ==
  /\ clean["S"]
  /\ sent["S"] = <<"A", "B", "A">>
  /\ Len(memory["S"].messages) = 6
  /\ \E t \in Threads : tpc[t] = "done" /\ tsid[t] = "S" /\ tnum[t] = 3

\* C9 as stated: when two turns on one session ran concurrently and both
\* returned, the stored history holds both user messages, each followed
\* by its reply, and each reply answered its own turn's user message.
C9_ConcurrentTurnsBothKept ==
  \A t1, t2 \in Threads :
    (/\ t1 # t2
     /\ tpc[t1] = "done" /\ tpc[t2] = "done"
     /\ tsid[t1] = tsid[t2]
     /\ overlapped[t1] /\ overlapped[t2]) =>
      LET h == memory[tsid[t1]].messages IN
      /\ tquery[t1] = tmsg[t1]
      /\ tquery[t2] = tmsg[t2]
      /\ \E i, j \in 1..(Len(h) - 1) :
           /\ i # j
           /\ h[i] = HumanMessage(tmsg[t1])
           /\ h[i + 1] = AIMessage(tret[t1].answer)
           /\ h[j] = HumanMessage(tmsg[t2])
           /\ h[j + 1] = AIMessage(tret[t2].answer)

\* C10: the snapshot of a session changes only in a step of a turn on that
\* session, a turn loads the history of its own session alone, and what it
\* returns is that history followed by its user message and its reply.
C10_OtherSessionsUntouched ==
  [][/\ \A s \in Sessions : memory'[s] # memory[s] =>
          \E t \in Threads : /\ tsid[t] = s
                             /\ tpc[t] \in {"loaded", "computed"}
                             /\ tpc'[t] # tpc[t]
     /\ \A t \in Threads : (tpc[t] = "idle" /\ tpc'[t] = "loaded") =>
          tstate'[t].messages =
            memory[tsid'[t]].messages \o <<HumanMessage(tmsg'[t])>>
     /\ \A t \in Threads : (tpc[t] = "computed" /\ tpc'[t] = "done") =>
          /\ tret'[t].messages =
               ToDicts(tbefore[t]) \o
                 <<UserDict(tmsg[t]),
                   [role |-> "assistant", content |-> tret'[t].answer]>>
          /\ tret'[t].answer \in {NothingFound, AnswerText(tmsg[t], <<>>)}
    ]_vars

C10_Witness ==
  \E t1, t2 \in Threads :
    /\ tpc[t1] = "done" /\ tsid[t1] = "S"
    /\ tpc[t2] = "computed" /\ tsid[t2] = "T"
    /\ Len(memory["S"].messages) = 2
    /\ Len(memory["T"].messages) = 3
    /\ Len(tbefore[t2]) = 2

(***************************************************************************)
(* Properties of the turn entry points.                                    *)
(***************************************************************************)
HasUser(msgs) == \E i \in 1..Len(msgs) : msgs[i].role = "user"
\* the content of the most recent message whose role is user
LastUserContent(msgs) ==
  msgs[CHOOSE i \in 1..Len(msgs) :
         /\ msgs[i].role = "user"
         /\ \A j \in (i + 1)..Len(msgs) : msgs[j].role # "user"].content
NoSnapshots == [key \in Sessions |-> EmptyState]

\* C11 as stated: a stateless turn (run_chat_stateless,
\* run_chat_langgraph_stateless, run_chat) on a history that holds a user
\* message, with no resource failing, completes and returns the given
\* history followed by one assistant message, and no session snapshot
\* exists or changes because of it.
C11_StatelessTurnCompletes ==
  (/\ epc = "done"
   /\ ecall.ep \in {"run_chat", "run_chat_stateless",
                    "run_chat_langgraph_stateless"}
   /\ HasUser(ecall.messages)
   /\ eout.status # "Exception") =>
     /\ eout.status = "ok"
     /\ eout.messages = Append(ecall.messages, AssistantDict(eout.answer))
     /\ memory = NoSnapshots

\* C12 as stated: in run_chat, run_chat_stateless (agent_node) and
\* chat_handler, every retrieval of a turn is made with the content of the
\* most recent user message of the history, also when other messages follow
\* it; on a history without a user message the turn retrieves nothing and
\* does not succeed.
C12_QueryIsLastUserMessage ==
  (/\ epc = "done"
   /\ ecall.ep \in {"run_chat", "run_chat_stateless", "chat_handler"}) =>
     IF HasUser(ecall.messages)
     THEN \A i \in 1..Len(eout.queries) :
            eout.queries[i] = LastUserContent(ecall.messages)
     ELSE /\ eout.queries = <<>>
          /\ eout.status # "ok"

\* C13 as stated: in run_chat (rag_answer), run_chat_stateless (agent_node)
\* and ask_question, a turn whose retrieval returned no document does not
\* invoke the Answer Generator; its answer is the fixed text and its
\* retrieved list is empty.
C13_NoDocumentsNoGenerator ==
  (/\ epc = "done"
   /\ ecall.ep \in {"run_chat", "run_chat_stateless", "ask_question"}
   /\ eout.docs = <<>>
   /\ (eout.status = "ok" \/ eout.generated)) =>
     /\ ~eout.generated
     /\ eout.answer = NothingFound
     /\ eout.retrieved = <<>>

(***************************************************************************)
(* Properties of the singletons.                                           *)
(***************************************************************************)
\* C14 as stated: however the first gets of a lazily built resource
\* interleave, the resource is built at most once, and the callers of its
\* getter all receive the same instance.
C14_BuiltOnceUnderConcurrency ==
  /\ \A r \in Resources : gbuilt[r] <= 1
  /\ \A t1, t2 \in Threads :
       (gpc[t1] = "done" /\ gpc[t2] = "done" /\ gwant[t1] = gwant[t2])
         => ggot[t1] = ggot[t2]

\* C15 as stated: over the calls of one process, made one after the other
\* through any entry point, no more than one Chunk Store handle, one
\* Embedding Provider, one Cross-Encoder Scorer and one Answer Generator
\* are ever built.
C15_EachResourceBuiltOnce ==
  /\ constructed.store <= 1
  /\ constructed.embeddings <= 1
  /\ constructed.scorer <= 1
  /\ constructed.generator <= 1

(***************************************************************************)
(* Properties of failed and rejected turns.                                *)
(***************************************************************************)
\* C16 as stated: when a stateful turn that ran alone on its session ends
\* in a failure of retrieval or of the Answer Generator, the stored history
\* of its session is the history the turn loaded: the turn's user message
\* is not in it.
C16_FailedTurnLeavesSnapshot ==
  \A t \in Threads :
    (tpc[t] = "failed" /\ ~overlapped[t]) =>
      memory[ThreadId(tsid[t])].messages = tbefore[t]

\* the events in which a request builds or calls a resource: returning a
\* cached object is none
ResourceEvents ==
  {"build_or_load_vectorstore", "build_or_load_failed", "load_vectorstore",
   "load_vectorstore_failed", "search", "construct_scorer", "construct_llm",
   "generate", "rag_ask_question"}
TouchedResource(touched) ==
  \E i \in 1..Len(touched) : touched[i] \in ResourceEvents
\* a request the validation rules reject
Invalid(c) ==
  \/ ~HasUser(c.messages)
  \/ c.ep = "chat_handler" /\ c.session_id = ""
  \/ c.ep \in {"run_chat", "chat_handler"} /\ c.k <= 0

\* C17 as stated: a turn with an empty message history (run_chat,
\* run_chat_stateless, chat_handler of a service that is ready) ends in the
\* invalid-argument error, and no session snapshot exists or changes
\* because of it.
C17_EmptyHistoryRejected ==
  (/\ epc = "done"
   /\ ecall.ep \in {"run_chat", "run_chat_stateless", "chat_handler"}
   /\ (ecall.ep = "chat_handler" => rag_service_ready)
   /\ ecall.messages = <<>>) =>
     /\ eout.status \in {"ValueError", "HTTP400"}
     /\ memory = NoSnapshots

\* C18 as stated: a turn request that is invalid (empty history, no user
\* message, missing session_id, non-positive k) ends in the validation
\* error, and the request has built or called no Chunk Store handle, scorer
\* or generator.
C18_InvalidRejectedFirst ==
  (/\ epc = "done"
   /\ ecall.ep \in {"run_chat", "run_chat_stateless", "chat_handler"}
   /\ (ecall.ep = "chat_handler" => rag_service_ready)
   /\ Invalid(ecall)) =>
     /\ eout.status \in {"ValueError", "HTTP400"}
     /\ ~TouchedResource(eout.touched)

(***************************************************************************)
(* Properties of the ingestion pipeline.                                   *)
(***************************************************************************)
\* C19: a build whose source lacks the combined-text column never gets
\* past load_dataframe, ends in the ValueError of the missing column, and
\* leaves CHROMA_DIR as it was when the call began: an existing store is
\* not removed and no store appears.
C19_MissingColumnWritesNothing ==
  (ipath = "build" /\ source.kind = "no_column") =>
    /\ ipc \in {"load", "failed"}
    /\ chroma_dir = ibefore
    /\ ipc = "failed" => istatus = "ValueError"

C19_Witness ==
  /\ iop = "build"
  /\ ipc = "failed"
  /\ source.kind = "no_column"
  /\ istatus = "ValueError"
  /\ chroma_dir = StoreDir(<<1>>, TRUE)

\* C20 as stated: a build that failed while embedding or writing leaves no
\* store in CHROMA_DIR that holds only some of the chunks, and the store
\* that build_or_load_vectorstore loads holds every chunk of its build.
C20_NoPartialIndexPublished ==
  /\ ipc = "failed" => (chroma_dir.files => chroma_dir.complete)
  /\ (ipc = "done" /\ ipath = "load") => chroma_dir.complete

(***************************************************************************)
(* Properties of the way from the dataframe to the chunks.                 *)
(***************************************************************************)
\* the positions of the rows of the pickled dataframe whose combined text
\* is not null, in row order
KeptRows == Ascending({j \in 1..Len(frame.rows) : ~frame.rows[j].text.null})
Converted == dpc \in {"converted", "chunked"}

\* C21: load_dataframe followed by dataframe_to_documents yields one
\* Document per row whose combined text is not null, in row order; its
\* content is that text, its metadata holds every other column with null
\* cells replaced by the empty string, and its row_index is the row's
\* position after the drop, 0..n-1.
C21_OneDocumentPerRow ==
  Converted =>
    /\ Len(raw_docs) = Len(KeptRows)
    /\ \A i \in 1..Len(raw_docs) :
         LET row == frame.rows[KeptRows[i]]
             metadata == raw_docs[i].metadata
         IN /\ raw_docs[i].page_content = row.text.chars
            /\ DOMAIN metadata = DOMAIN row.cells \cup {"row_index"}
            /\ \A c \in DOMAIN row.cells : metadata[c] = FillNa(row.cells[c])
            /\ metadata["row_index"] = IntCell(i - 1)

\* the Document a chunk was cut from
Parent(chunk) == raw_docs[chunk.metadata["row_index"].v + 1]

\* C22: every chunk carries all metadata keys of its parent Document with
\* unchanged values, plus start_index, and no other key is added, removed
\* or changed, also for rows with a column named row_index or start_index.
C22_ChunkKeepsMetadata ==
  dpc = "chunked" =>
    \A j \in 1..Len(chunked_docs) :
      LET chunk == chunked_docs[j] IN
      /\ DOMAIN chunk.metadata = DOMAIN Parent(chunk).metadata \cup {"start_index"}
      /\ \A c \in DOMAIN Parent(chunk).metadata :
           chunk.metadata[c] = Parent(chunk).metadata[c]

\* the chunks of the i-th Document, in order
ChunksOf(i) ==
  LET at == Ascending({j \in 1..Len(chunked_docs) :
                         chunked_docs[j].metadata["row_index"].v = i - 1})
  IN [n \in 1..Len(at) |-> chunked_docs[at[n]]]

\* the chunks' texts joined, each without the part that lies before the
\* end of the text joined so far
RECURSIVE NonOverlapping(_, _)
NonOverlapping(chunks, joined) ==
  IF chunks = <<>> THEN joined
  ELSE LET text == Head(chunks).page_content
           start == Head(chunks).metadata["start_index"].v
           shared == Max(0, Len(joined) - start)
       IN NonOverlapping(Tail(chunks),
                         joined \o SubSeq(text, shared + 1, Len(text)))

\* C23: each chunk of a Document of length L has at most CHUNK_SIZE
\* characters, its start_index lies in [0, L) and is an offset at which its
\* text occurs in the parent content, and the non-overlapping portions of
\* consecutive chunks, concatenated, are the parent content.
C23_ChunkBoundaryLaw ==
  dpc = "chunked" =>
    \A i \in 1..Len(raw_docs) :
      LET content == raw_docs[i].page_content IN
      /\ \A n \in 1..Len(ChunksOf(i)) :
           LET chunk == ChunksOf(i)[n]
               start == chunk.metadata["start_index"].v
           IN /\ Len(chunk.page_content) <= CHUNK_SIZE
              /\ 0 <= start /\ start < Len(content)
              /\ SubSeq(content, start + 1, start + Len(chunk.page_content))
                   = chunk.page_content
      /\ NonOverlapping(ChunksOf(i), <<>>) = content

\* how often chunk c is an entry of the collection
Occurrences(entries, c) == Cardinality({i \in 1..Len(entries) : entries[i] = c})

\* the entries, up to their order, are the chunks of one build of the source
SingleBuild(entries) ==
  \A c \in 1..(Len(entries) + source.n) :
    Occurrences(entries, c) = IF c <= source.n THEN 1 ELSE 0

\* C24: a rebuild discards the persisted store first, so after every
\* successful build, whatever the directory held before and however many
\* builds came before, the store holds the entries of a single build of the
\* source, up to ordering, and the returned vectorstore is that store.
C24_RebuildHoldsSingleBuild ==
  (ipc = "done" /\ ipath = "build") =>
    /\ SingleBuild(chroma_dir.chunks)
    /\ ihandle = chroma_dir.chunks

\* a second successful rebuild over the store of the first
C24_Witness ==
  /\ ipc = "done"
  /\ iop = "build"
  /\ nruns = 2
  /\ source.n = 2
  /\ ibefore = StoreDir(<<1, 2>>, TRUE)
  /\ chroma_dir = StoreDir(<<1, 2>>, TRUE)

\* the directory holds a store: it exists and is not empty
Present(dir) == dir.exists /\ dir.files

\* C25: build_or_load_vectorstore loads the existing store, leaving the
\* directory as it is, exactly when the directory exists and is non-empty;
\* otherwise it unpacks the archive when there is one, and builds only when
\* there is neither; after a successful call the directory is present and
\* non-empty, so a later call loads.
C25_LoadUnpackOrBuild ==
  (iop = "build_or_load" /\ ipc # "idle") =>
    /\ ipath = "load" <=> Present(ibefore)
    /\ ipath = "unpack" <=> (~Present(ibefore) /\ archive)
    /\ ipath = "build" <=> (~Present(ibefore) /\ ~archive)
    /\ ipath = "load" =>
         /\ chroma_dir = ibefore
         /\ ipc = "done" /\ ihandle = ibefore.chunks
    /\ (ipath = "unpack" /\ ipc = "done") =>
         /\ chroma_dir.chunks = ArchiveChunks
         /\ ihandle = ArchiveChunks
    /\ ipc = "done" => Present(chroma_dir)

\* a call that loads what an earlier call unpacked, the archive still there
C25_Witness ==
  /\ iop = "build_or_load"
  /\ ipc = "done"
  /\ ipath = "load"
  /\ nruns = 2
  /\ archive
  /\ ibefore = StoreDir(ArchiveChunks, TRUE)
  /\ source.kind = "missing"


\* C26: a chat request that chat_handler answers successfully with n
\* messages gets a response of status success, whose messages are the n
\* request messages in order followed by exactly one assistant message with
\* the answer as content, and whose retrieved list is empty.
C26_SuccessResponseShape ==
  (epc = "done" /\ ecall.ep = "chat_handler" /\ eout.status = "ok") =>
    LET n == Len(ecall.messages) IN
    /\ eout.response_status = "success"
    /\ Len(eout.messages) = n + 1
    /\ SubSeq(eout.messages, 1, n) = ecall.messages
    /\ eout.messages[n + 1] = [role |-> "assistant", content |-> eout.answer]
    /\ eout.retrieved = <<>>

C26_Witness ==
  /\ epc = "done" /\ ecall.ep = "chat_handler" /\ eout.status = "ok"
  /\ Len(ecall.messages) = 2
  /\ ecall.messages[2].role = "assistant"
  /\ Len(eout.messages) = 3


\* the entry the claim describes for document d: its metadata and the first
\* min(400, length) characters of its content
SnippetEntry(d) ==
  [metadata |-> d,
   snippet |-> [text |-> d, len |-> Min(400, PageContent(d).len)]]

\* C27: the retrieved list a turn returns has exactly one entry per document
\* used to build that turn's context, in the same rank order, each with the
\* document's metadata and a snippet of the first min(400, length) characters
\* of its content; a turn that found no documents returns an empty list.
C27_RetrievedMirrorsContext ==
  (epc = "done" /\ eout.status = "ok"
   /\ ecall.ep \in {"answer_single_turn", "run_chat_stateless"}) =>
    /\ Len(eout.retrieved) = Len(eout.context)
    /\ \A i \in 1..Len(eout.retrieved) :
         i <= Len(eout.context) =>
           eout.retrieved[i] = SnippetEntry(eout.context[i])
    /\ eout.docs = <<>> => eout.retrieved = <<>>


\* C28: within a stateful turn, when the reply is about to be computed the
\* stored snapshot of the turn's session ends with the turn's user message,
\* and the history the reply is computed against is the snapshot read at the
\* start of the turn followed by that user message.
C28_UserMessageStoredBeforeReply ==
  \A t \in Threads :
    tpc[t] = "agent" =>
      LET stored == memory[ThreadId(tsid[t])].messages
          history == tstate[t].messages
      IN /\ stored # <<>>
         /\ stored[Len(stored)] = HumanMessage(tmsg[t])
         /\ history = Append(tbefore[t], HumanMessage(tmsg[t]))


\* the position of document d in sequence s (0 when it is not there)
PositionIn(d, s) ==
  IF \E i \in 1..Len(s) : s[i] = d
  THEN CHOOSE i \in 1..Len(s) : s[i] = d /\ \A j \in 1..(i - 1) : s[j] # d
  ELSE 0

\* C29: with use_reranker true, candidates that receive equal cross-encoder
\* scores appear in the result in their stage-1 order: of two returned
\* documents the one ranked first has the higher score or, at equal scores,
\* the earlier stage-1 position, and for positive k no candidate left out
\* would precede a returned one in that order.
C29_TiesKeepStage1Order ==
  (Returned /\ use_reranker /\ scores # <<>>) =>
    /\ \A i, j \in 1..Len(result) :
         i < j =>
           LET a == PositionIn(result[i], candidate_docs)
               b == PositionIn(result[j], candidate_docs)
           IN \/ scores[a] > scores[b]
              \/ scores[a] = scores[b] /\ a < b
    /\ k > 0 =>
         \A c \in 1..Len(candidate_docs) :
           PositionIn(candidate_docs[c], result) = 0 =>
             \A i \in 1..Len(result) :
               LET a == PositionIn(result[i], candidate_docs)
               IN \/ scores[a] > scores[c]
                  \/ scores[a] = scores[c] /\ a < c

C29_Witness ==
  /\ Returned
  /\ use_reranker
  /\ k = 2
  /\ Len(candidate_docs) = 3
  /\ scores = <<1, 1, 1>>
  /\ result = <<candidate_docs[1], candidate_docs[2]>>


\* the role the claim gives a dict after the round trip
RoundTripRole(m) == IF m.role \in {"user", "assistant", "system"}
                    THEN m.role ELSE "user"
\* the messages the claim counts as user messages
CountsAsUser(msgs) ==
  {i \in 1..Len(msgs) : msgs[i].role \notin {"assistant", "system"}}

\* C30: _dict_to_lc_message then _lc_message_to_dict returns the same role
\* and content for the roles user, assistant and system, and role user for a
\* dict with any other role or none; a stateless turn returns its history
\* converted so, and selects as query the content of the last message that
\* is a user message after the round trip.
C30_RoundTripAndQuery ==
  (epc = "done" /\ ecall.ep = "run_chat_stateless") =>
    LET msgs == ecall.messages
        back == ToDicts(ToLcMessages(msgs))
    IN /\ Len(back) = Len(msgs)
       /\ \A i \in 1..Len(msgs) :
            /\ back[i].content = msgs[i].content
            /\ back[i].role = RoundTripRole(msgs[i])
       /\ eout.status = "ok" =>
            /\ SubSeq(eout.messages, 1, Len(msgs)) = back
            /\ CountsAsUser(msgs) # {}
       /\ eout.queries # <<>> =>
            /\ CountsAsUser(msgs) # {}
            /\ eout.queries =
                 <<msgs[CHOOSE i \in CountsAsUser(msgs) :
                          \A j \in CountsAsUser(msgs) : j <= i].content>>

C30_Witness ==
  /\ epc = "done" /\ ecall.ep = "run_chat_stateless" /\ eout.status = "ok"
  /\ Len(ecall.messages) = 2
  /\ ecall.messages[1] = [role |-> "user", content |-> "A"]
  /\ ecall.messages[2] = [role |-> "tool", content |-> "B"]
  /\ eout.queries = <<"B">>
  /\ eout.messages[2] = [role |-> "user", content |-> "B"]

\* a dict without a role is selected as the query too
C30_WitnessNoRole ==
  /\ epc = "done" /\ ecall.ep = "run_chat_stateless" /\ eout.status = "ok"
  /\ ecall.messages = <<[role |-> "", content |-> "A"],
                        [role |-> "assistant", content |-> "B"]>>
  /\ eout.queries = <<"A">>

=============================================================================
